---- MODULE Spec2Model ----
(***************************************************************************)
(* Model of package biosimd (GRAIL bio): the .bam seq-field nibble codec.  *)
(* UnpackSeq / PackSeq / ReverseComp / ReverseCompInplace /                *)
(* UnpackAndReplaceSeq and the SSE routines of biosimd_amd64.s they call,  *)
(* and of the shard arithmetic of encoding/bam/shard.go.                    *)
(*                                                                         *)
(* A byte is an integer in 0..255, an XMM register a function 0..15 ->     *)
(* byte (lane j is the byte at address base+j: little endian).  A pointer  *)
(* is a buffer name and an integer offset from the slice's Data pointer.   *)
(***************************************************************************)
EXTENDS Integers, Sequences, FiniteSets, TLC

VARIABLES
    bytesPerVec,      \* Go package variable, written by init()
    log2BytesPerVec,  \* Go package variable, written by init()
    phase,            \* "start" | "ready" | "aborted" (init panicked) | "panicked"
    pat,              \* which input pattern the caller filled buffer A with
    len,              \* len[b]: the slice length of buffer b
    mem,              \* mem[b]: the backing array of buffer b, 0 .. cap-1
    pre,              \* mem as it was when the last call was made
    rd,               \* rd[b]: offsets of b the last call read
    wr,               \* wr[b]: offsets of b the last call wrote
    calls,            \* the calls made so far: op, dst, src, table, res
    thr,              \* thr[i]: registers and position of concurrent call i
    shard,            \* the bam.Shard under test and the last method result
    gps,              \* the run of GetPositionBasedShards: arguments, locals, list
    ch,               \* the channel of NewShardChannel, its producer and consumers
    gen,              \* a CoordGenerator and the Generate calls made on it
    gbs               \* the run of GetByteBasedShards: index, arguments, result

vars ==
    <<bytesPerVec, log2BytesPerVec, phase, pat, len, mem, pre, rd, wr, calls,
      thr, shard, gps, ch, gen, gbs>>

\* ---------------------------------------------------------------- bounds

\* Longest buffer A the caller allocates (bytes).
MaxLen == 98
\* Input patterns 0 .. MaxPat (even: codes below 16, odd: arbitrary bytes).
MaxPat == 3
\* Longest buffer handed to a call that runs concurrently with another.
MaxConcLen == 48
\* Largest Start and End of a shard under test (besides math.MaxInt32).
MaxPos == 7
\* Largest padding of a shard, and largest padding argument.
MaxPad == 3
\* Most references in a header, and the longest reference.
MaxRefs == 3
MaxRefLen == 5
\* Largest shardSize handed to GetPositionBasedShards.
MaxShardSize == 3
\* Longest shard list a run is followed to (a run that never leaves its
\* loop is cut here).
MaxShards == 18
MaxChanLen == 3
MaxConsumers == 2
MaxGenCalls == 4
MaxGenRef == 1
MaxGenPos == 1
MaxBytesPerShard == 1
MaxMinBases == 2
MaxChunkRefs == 2
MaxChunkRefLen == 3
MaxOffsets == 2
MaxFilePos == 3

\* ------------------------------------------------------ bytes and vectors

Lanes == 0 .. 15

RECURSIVE BitAnd(_, _)
BitAnd(a, b) ==
    IF a = 0 \/ b = 0 THEN 0
    ELSE (IF a % 2 = 1 /\ b % 2 = 1 THEN 1 ELSE 0) + 2 * BitAnd(a \div 2, b \div 2)

RECURSIVE BitOr(_, _)
BitOr(a, b) ==
    IF a = 0 THEN b
    ELSE IF b = 0 THEN a
    ELSE (IF a % 2 = 1 \/ b % 2 = 1 THEN 1 ELSE 0) + 2 * BitOr(a \div 2, b \div 2)

RECURSIVE BitXor(_, _)
BitXor(a, b) ==
    IF a = 0 THEN b
    ELSE IF b = 0 THEN a
    ELSE (IF a % 2 # b % 2 THEN 1 ELSE 0) + 2 * BitXor(a \div 2, b \div 2)

\* Go: byte << 4 (truncated to 8 bits), byte >> 4, byte & 15.
Shl4(x) == (x * 16) % 256
Shr4(x) == x \div 16
Low4(x) == x % 16

\* A DATA block of sixteen bytes, written in address order.
Vec(s) == [j \in Lanes |-> s[j + 1]]

Mask0f0f ==
    Vec(<<\h0f, \h0f, \h0f, \h0f, \h0f, \h0f, \h0f, \h0f,
          \h0f, \h0f, \h0f, \h0f, \h0f, \h0f, \h0f, \h0f>>)

Mask0303 ==
    Vec(<<\h03, \h03, \h03, \h03, \h03, \h03, \h03, \h03,
          \h03, \h03, \h03, \h03, \h03, \h03, \h03, \h03>>)

GatherOddLow ==
    Vec(<<\h01, \h03, \h05, \h07, \h09, \h0b, \h0d, \h0f,
          \hff, \hff, \hff, \hff, \hff, \hff, \hff, \hff>>)

GatherOddHigh ==
    Vec(<<\hff, \hff, \hff, \hff, \hff, \hff, \hff, \hff,
          \h01, \h03, \h05, \h07, \h09, \h0b, \h0d, \h0f>>)

Reverse8 ==
    Vec(<<\h0f, \h0e, \h0d, \h0c, \h0b, \h0a, \h09, \h08,
          \h07, \h06, \h05, \h04, \h03, \h02, \h01, \h00>>)

ReverseComp4Lookup ==
    Vec(<<\h00, \h08, \h04, \h0c, \h02, \h0a, \h06, \h0e,
          \h01, \h09, \h05, \h0d, \h03, \h0b, \h07, \h0f>>)

\* Mutant: entries 3 and 5 exchanged.
revCompTable_Typo ==
    [x \in 0 .. 15 |->
        <<0, 8, 4, 10, 2, 12, 6, 14, 1, 9, 5, 13, 3, 11, 7, 15>>[x + 1]]

\* Go: var revCompTable = [...]byte{...}, indexed 0 .. 15.
revCompTable ==
    [x \in 0 .. 15 |->
        <<0, 8, 4, 12, 2, 10, 6, 14, 1, 9, 5, 13, 3, 11, 7, 15>>[x + 1]]

\* PSRLQ $4: each 64-bit lane shifted right by 4 bits; byte j takes its own
\* high nibble and, as its high nibble, the low nibble of the next byte of
\* the same quadword.
PSRLQ4(x) ==
    [j \in Lanes |->
        Shr4(x[j]) + (IF j % 8 = 7 THEN 0 ELSE Low4(x[j + 1]) * 16)]

\* PSLLQ $12: each 64-bit lane shifted left by 12 bits; byte j takes the high
\* nibble of byte j-2 as its low nibble and the low nibble of byte j-1 as its
\* high nibble, zeros shifted in at the bottom of the quadword.
PSLLQ12(x) ==
    [j \in Lanes |->
        (IF j % 8 >= 2 THEN Shr4(x[j - 2]) ELSE 0)
        + (IF j % 8 >= 1 THEN Low4(x[j - 1]) * 16 ELSE 0)]

PAND(a, b) == [j \in Lanes |-> BitAnd(a[j], b[j])]

POR(a, b) == [j \in Lanes |-> BitOr(a[j], b[j])]

PXOR(a, b) == [j \in Lanes |-> BitXor(a[j], b[j])]

\* PSHUFB idx, x: lane j becomes 0 when bit 7 of idx[j] is set, else
\* x[idx[j] & 15].
PSHUFB(x, idx) ==
    [j \in Lanes |-> IF idx[j] >= 128 THEN 0 ELSE x[idx[j] % 16]]

\* PUNPCKLBW b, a / PUNPCKHBW b, a: interleave the low (high) eight bytes
\* of a and b, a's byte first.
PUNPCKLBW(a, b) ==
    [j \in Lanes |-> IF j % 2 = 0 THEN a[j \div 2] ELSE b[j \div 2]]

PUNPCKHBW(a, b) ==
    [j \in Lanes |-> IF j % 2 = 0 THEN a[8 + (j \div 2)] ELSE b[8 + (j \div 2)]]

\* ----------------------------------------------------------------- memory

Bufs == {"A", "B", "C"}

NoAccess == [b \in Bufs |-> {}]

\* simd.RoundUpPow2(n, bytesPerVec) with bytesPerVec = 16.
RoundUpPow2(n) == ((n + 15) \div 16) * 16

\* The execution state of one call: memory, the offsets touched, and "ok"
\* or "panic".
Machine(mm) == [mem |-> mm, rd |-> NoAccess, wr |-> NoAccess, res |-> "ok"]

Panic(m) == [m EXCEPT !.res = "panic"]

InRange(b, i) == 0 <= i /\ i < len[b]

\* Go slice indexing b[i]: bounds-checked against len(b).
GoVal(m, b, i) == IF InRange(b, i) THEN m.mem[b][i] ELSE 0

GoRead(m, b, i) ==
    IF m.res # "ok" THEN m
    ELSE IF ~InRange(b, i) THEN Panic(m)
    ELSE [m EXCEPT !.rd[b] = @ \cup {i}]

GoStore(m, b, i, v) ==
    IF m.res # "ok" THEN m
    ELSE IF ~InRange(b, i) THEN Panic(m)
    ELSE [m EXCEPT !.mem[b][i] = v, !.wr[b] = @ \cup {i}]

\* MOVOU (ptr), X: an unchecked 16-byte load at offset a of buffer b.
LoadVec(m, b, a) ==
    [j \in Lanes |-> IF a + j \in DOMAIN m.mem[b] THEN m.mem[b][a + j] ELSE 0]

MOVOUload(m, b, a) == [m EXCEPT !.rd[b] = @ \cup (a .. a + 15)]

\* MOVOU X, (ptr): an unchecked 16-byte store at offset a of buffer b.
MOVOUstore(m, b, a, x) ==
    [m EXCEPT
        !.mem[b] = [i \in DOMAIN @ |-> IF a <= i /\ i < a + 16 THEN x[i - a] ELSE @[i]],
        !.wr[b] = @ \cup (a .. a + 15)]

\* ------------------------------------------------------------- UnpackSeq

\* The loop body of unpackSeqOddSSE2Asm applied to the vector X1 loaded from
\* src: the two destination vectors (X1, X3) it stores.
UnpackVecLo(X1) == PUNPCKLBW(PAND(PSRLQ4(X1), Mask0f0f), PAND(X1, Mask0f0f))

UnpackVecHi(X1) == PUNPCKHBW(PAND(PSRLQ4(X1), Mask0f0f), PAND(X1, Mask0f0f))

\* unpackSeqOddSSE2Loop: DI, R8 are the offsets into src and dst; CX is the
\* offset 16 bytes before the end of src.  The body runs before the test.
RECURSIVE unpackSeqOddSSE2Loop(_, _, _, _, _, _)
unpackSeqOddSSE2Loop(m, d, s, DI, R8, CX) ==
    LET X1 == LoadVec(m, s, DI)
        m1 == MOVOUstore(
                  MOVOUstore(MOVOUload(m, s, DI), d, R8, UnpackVecLo(X1)),
                  d, R8 + 16, UnpackVecHi(X1))
    IN  IF CX > DI + 16
        THEN unpackSeqOddSSE2Loop(m1, d, s, DI + 16, R8 + 32, CX)
        ELSE m1

\* Mutant: the final unaligned window is left out.
unpackSeqOddSSE2Asm_NoFinal(m, d, s, nSrcFullByte) ==
    unpackSeqOddSSE2Loop(m, d, s, 0, 0, nSrcFullByte - 16)

unpackSeqOddSSE2Asm(m, d, s, nSrcFullByte) ==
    LET CX == nSrcFullByte - 16
        AX == 2 * CX
        m1 == unpackSeqOddSSE2Loop(m, d, s, 0, 0, CX)
        X1 == LoadVec(m1, s, CX)
    IN  MOVOUstore(
            MOVOUstore(MOVOUload(m1, s, CX), d, AX, UnpackVecLo(X1)),
            d, AX + 16, UnpackVecHi(X1))

RECURSIVE UnpackSeqScalar(_, _, _, _, _)
UnpackSeqScalar(m, d, s, srcPos, nSrcFullByte) ==
    IF srcPos >= nSrcFullByte \/ m.res # "ok" THEN m
    ELSE LET srcByte == GoVal(m, s, srcPos)
             m1 == GoStore(
                       GoStore(GoRead(m, s, srcPos), d, 2 * srcPos, Shr4(srcByte)),
                       d, 2 * srcPos + 1, Low4(srcByte))
         IN  UnpackSeqScalar(m1, d, s, srcPos + 1, nSrcFullByte)

\* Mutant: the odd last code is taken from the low nibble.
UnpackSeqTail_LowNibble(m, d, s, nSrcFullByte) ==
    GoStore(GoRead(m, s, nSrcFullByte), d, 2 * nSrcFullByte,
            Low4(GoVal(m, s, nSrcFullByte)))

\* The last code of an odd-length dst: the high nibble of the last src byte.
UnpackSeqTail(m, d, s, nSrcFullByte) ==
    GoStore(GoRead(m, s, nSrcFullByte), d, 2 * nSrcFullByte,
            Shr4(GoVal(m, s, nSrcFullByte)))

UnpackSeqLenOk(d, s) == len[s] = (len[d] \div 2) + (len[d] % 2)

\* Mutant: the vector path is taken whatever the length.
UnpackSeqUseScalar_Never(nSrcFullByte) == FALSE

UnpackSeqUseScalar(nSrcFullByte) == nSrcFullByte < bytesPerVec

UnpackSeq(m, d, s) ==
    LET dstLen == len[d]
        nSrcFullByte == dstLen \div 2
        srcOdd == dstLen % 2
    IN  IF ~UnpackSeqLenOk(d, s) THEN Panic(m)
        ELSE LET m1 == IF UnpackSeqUseScalar(nSrcFullByte)
                       THEN UnpackSeqScalar(m, d, s, 0, nSrcFullByte)
                       ELSE unpackSeqOddSSE2Asm(m, d, s, nSrcFullByte)
             IN  IF srcOdd = 1 THEN UnpackSeqTail(m1, d, s, nSrcFullByte) ELSE m1

\* --------------------------------------------------------------- PackSeq

\* Mutant: both halves gathered with GatherOddLow.
PackVec_LowTwice(X2, X3) ==
    POR(PSHUFB(POR(PSLLQ12(X2), X2), GatherOddLow),
        PSHUFB(POR(PSLLQ12(X3), X3), GatherOddLow))

\* The loop body of packSeqOddSSSE3Asm applied to the vectors X2, X3 loaded
\* from src: the destination vector it stores.
PackVec(X2, X3) ==
    POR(PSHUFB(POR(PSLLQ12(X2), X2), GatherOddLow),
        PSHUFB(POR(PSLLQ12(X3), X3), GatherOddHigh))

\* packSeqOddSSSE3Loop: DI, R8 are the offsets into src and dst; AX is the
\* offset 32 bytes before the end of the paired part of src.
RECURSIVE packSeqOddSSSE3Loop(_, _, _, _, _, _)
packSeqOddSSSE3Loop(m, d, s, DI, R8, AX) ==
    LET X2 == LoadVec(m, s, DI)
        X3 == LoadVec(m, s, DI + 16)
        m1 == MOVOUstore(MOVOUload(MOVOUload(m, s, DI), s, DI + 16),
                         d, R8, PackVec(X2, X3))
    IN  IF AX > DI + 32
        THEN packSeqOddSSSE3Loop(m1, d, s, DI + 32, R8 + 16, AX)
        ELSE m1

packSeqOddSSSE3Asm(m, d, s, nDstFullByte) ==
    LET CX == nDstFullByte - 16
        AX == 2 * CX
        m1 == packSeqOddSSSE3Loop(m, d, s, 0, 0, AX)
        X2 == LoadVec(m1, s, AX)
        X3 == LoadVec(m1, s, AX + 16)
    IN  MOVOUstore(MOVOUload(MOVOUload(m1, s, AX), s, AX + 16),
                   d, CX, PackVec(X2, X3))

RECURSIVE PackSeqScalar(_, _, _, _, _)
PackSeqScalar(m, d, s, dstPos, nDstFullByte) ==
    IF dstPos >= nDstFullByte \/ m.res # "ok" THEN m
    ELSE LET v == BitOr(Shl4(GoVal(m, s, 2 * dstPos)), GoVal(m, s, 2 * dstPos + 1))
             m1 == GoStore(GoRead(GoRead(m, s, 2 * dstPos), s, 2 * dstPos + 1),
                           d, dstPos, v)
         IN  PackSeqScalar(m1, d, s, dstPos + 1, nDstFullByte)

\* The last byte of an odd-length src: its code in the high nibble.
PackSeqTail(m, d, s, nDstFullByte) ==
    GoStore(GoRead(m, s, nDstFullByte * 2), d, nDstFullByte,
            Shl4(GoVal(m, s, nDstFullByte * 2)))

PackSeqLenOk(d, s) == len[d] = (len[s] \div 2) + (len[s] % 2)

\* Mutant: the threshold counts 16 src bytes where it should count dst bytes.
PackSeqUseScalar_Half(nDstFullByte) == nDstFullByte < bytesPerVec \div 2

PackSeqUseScalar(nDstFullByte) == nDstFullByte < bytesPerVec

\* Mutant: the length check comes after the work.
PackSeq_LateCheck(m, d, s) ==
    LET nDstFullByte == len[s] \div 2
        m1 == IF PackSeqUseScalar(nDstFullByte)
              THEN PackSeqScalar(m, d, s, 0, nDstFullByte)
              ELSE packSeqOddSSSE3Asm(m, d, s, nDstFullByte)
        m2 == IF len[s] % 2 = 1 THEN PackSeqTail(m1, d, s, nDstFullByte) ELSE m1
    IN  IF ~PackSeqLenOk(d, s) THEN Panic(m2) ELSE m2

PackSeq(m, d, s) ==
    LET srcLen == len[s]
        nDstFullByte == srcLen \div 2
        dstOdd == srcLen % 2
    IN  IF ~PackSeqLenOk(d, s) THEN Panic(m)
        ELSE LET m1 == IF PackSeqUseScalar(nDstFullByte)
                       THEN PackSeqScalar(m, d, s, 0, nDstFullByte)
                       ELSE packSeqOddSSSE3Asm(m, d, s, nDstFullByte)
             IN  IF dstOdd = 1 THEN PackSeqTail(m1, d, s, nDstFullByte) ELSE m1

\* ----------------------------------------------------------- ReverseComp

\* PSHUFB Reverse8, X; PSHUFB X, table: the loaded vector reversed, then
\* each lane looked up in the 16-byte table register.
ReverseCompVec(X2) == PSHUFB(ReverseComp4Lookup, PSHUFB(X2, Reverse8))

\* Go: revCompTable[v] for a byte v; the array has 16 entries and the index
\* is bounds-checked.
TableIndexOk(v) == v < 16

GoTableVal(v) == IF TableIndexOk(v) THEN revCompTable[v] ELSE 0

GoTableRead(m, v) == IF m.res = "ok" /\ ~TableIndexOk(v) THEN Panic(m) ELSE m

\* reverseComp4SSSE3Loop: SI walks src backwards, DI walks dst forwards, CX
\* is the offset of the last dst vector.
RECURSIVE reverseComp4SSSE3Loop(_, _, _, _, _, _)
reverseComp4SSSE3Loop(m, d, s, SI, DI, CX) ==
    LET X2 == LoadVec(m, s, SI)
        m1 == MOVOUstore(MOVOUload(m, s, SI), d, DI, ReverseCompVec(X2))
    IN  IF CX > DI + 16
        THEN reverseComp4SSSE3Loop(m1, d, s, SI - 16, DI + 16, CX)
        ELSE m1

\* Mutant: the final window (src offset 0) is left out.
reverseComp4SSSE3Asm_NoFinal(m, d, s, nByte) ==
    reverseComp4SSSE3Loop(m, d, s, nByte - 16, 0, nByte - 16)

reverseComp4SSSE3Asm(m, d, s, nByte) ==
    LET SI == nByte - 16
        CX == nByte - 16
        m1 == reverseComp4SSSE3Loop(m, d, s, SI, 0, CX)
        X2 == LoadVec(m1, s, 0)
    IN  MOVOUstore(MOVOUload(m1, s, 0), d, CX, ReverseCompVec(X2))

RECURSIVE ReverseCompScalar(_, _, _, _, _)
ReverseCompScalar(m, d, s, idx, nByte) ==
    IF idx = nByte \/ m.res # "ok" THEN m
    ELSE LET invIdx == nByte - 1 - idx
             v == GoVal(m, s, invIdx)
             m1 == GoStore(GoTableRead(GoRead(m, s, invIdx), v), d, idx, GoTableVal(v))
         IN  ReverseCompScalar(m1, d, s, idx + 1, nByte)

ReverseCompLenOk(d, s) == len[d] = len[s]

\* Mutant: the in-place function's test (<=) copied here.
ReverseCompUseScalar_Le(nByte) == nByte <= bytesPerVec

ReverseCompUseScalar(nByte) == nByte < bytesPerVec

ReverseComp(m, d, s) ==
    LET nByte == len[s]
    IN  IF ~ReverseCompLenOk(d, s) THEN Panic(m)
        ELSE IF ReverseCompUseScalar(nByte)
        THEN ReverseCompScalar(m, d, s, 0, nByte)
        ELSE reverseComp4SSSE3Asm(m, d, s, nByte)

\* ---------------------------------------------- reverseComp2SSSE3Asm

\* PSHUFB Reverse8, X; PXOR Mask0303, X: the 2-bit (ACGT) complement.
ReverseComp2Vec(X2) == PXOR(PSHUFB(X2, Reverse8), Mask0303)

RECURSIVE reverseComp2SSSE3Loop(_, _, _, _, _, _)
reverseComp2SSSE3Loop(m, d, s, SI, DI, CX) ==
    LET X2 == LoadVec(m, s, SI)
        m1 == MOVOUstore(MOVOUload(m, s, SI), d, DI, ReverseComp2Vec(X2))
    IN  IF CX > DI + 16
        THEN reverseComp2SSSE3Loop(m1, d, s, SI - 16, DI + 16, CX)
        ELSE m1

reverseComp2SSSE3Asm(m, d, s, nByte) ==
    LET SI == nByte - 16
        CX == nByte - 16
        m1 == reverseComp2SSSE3Loop(m, d, s, SI, 0, CX)
        X2 == LoadVec(m1, s, 0)
    IN  MOVOUstore(MOVOUload(m1, s, 0), d, CX, ReverseComp2Vec(X2))

\* ---------------------------------------------------- ReverseCompInplace

\* reverseComp4InplaceSSSE3Loop: one pass swaps the window at SI with the
\* window at DI; both are loaded before either is stored.  The pass runs
\* before the test SI <= AX.  Returns the machine and the final SI, DI.
RECURSIVE reverseComp4InplaceSSSE3Loop(_, _, _, _, _)
reverseComp4InplaceSSSE3Loop(m, b, SI, DI, AX) ==
    LET X2 == LoadVec(m, b, SI)
        X3 == LoadVec(m, b, DI)
        X4 == ReverseCompVec(X2)
        X5 == ReverseCompVec(X3)
        m1 == MOVOUstore(
                  MOVOUstore(MOVOUload(MOVOUload(m, b, SI), b, DI), b, SI, X5),
                  b, DI, X4)
    IN  IF AX >= SI + 16
        THEN reverseComp4InplaceSSSE3Loop(m1, b, SI + 16, DI - 16, AX)
        ELSE [m |-> m1, SI |-> SI + 16, DI |-> DI - 16]

\* reverseComp4InplaceSSSE3LastThree: three windows loaded, then stored.
reverseComp4InplaceSSSE3LastThree(m, b, SI, DI) ==
    LET X2 == LoadVec(m, b, SI)
        X3 == LoadVec(m, b, SI + 16)
        X4 == LoadVec(m, b, DI)
        X1 == ReverseCompVec(X4)
        X5 == ReverseCompVec(X2)
        X6 == ReverseCompVec(X3)
        m1 == MOVOUload(MOVOUload(MOVOUload(m, b, SI), b, SI + 16), b, DI)
    IN  MOVOUstore(MOVOUstore(MOVOUstore(m1, b, SI, X1), b, DI - 16, X6), b, DI, X5)

\* Mutant: the three-window case is never taken.
InplaceBX_Always8(nByte) == 8

\* Mutant: BX reads as 0, the LastThree block is never skipped.
InplaceBX_Zero(nByte) == 0

\* BX: 8 when the loop alone finishes the job, 0 when three windows are left.
InplaceBX(nByte) == BitAnd((nByte - 1) \div 2, 8)

reverseComp4InplaceSSSE3Asm(m, b, nByte) ==
    LET DI == nByte - 16
        BX == InplaceBX(nByte)
        CX == ((nByte - 1) \div 2) + 2 * BX
        AX == CX - 24
    IN  IF AX < 0 THEN reverseComp4InplaceSSSE3LastThree(m, b, 0, DI)
        ELSE LET r == reverseComp4InplaceSSSE3Loop(m, b, 0, DI, AX)
             IN  IF BX # 0 THEN r.m
                 ELSE reverseComp4InplaceSSSE3LastThree(r.m, b, r.SI, r.DI)

\* seq8[idx], seq8[invIdx] = revCompTable[seq8[invIdx]], revCompTable[seq8[idx]]
RECURSIVE ReverseCompInplaceScalar(_, _, _, _)
ReverseCompInplaceScalar(m, b, idx, nByte) ==
    IF idx = nByte \div 2 \/ m.res # "ok" THEN m
    ELSE LET invIdx == nByte - 1 - idx
             hi == GoVal(m, b, invIdx)
             lo == GoVal(m, b, idx)
             m1 == GoTableRead(GoRead(m, b, invIdx), hi)
             m2 == GoTableRead(GoRead(m1, b, idx), lo)
             m3 == GoStore(GoStore(m2, b, idx, GoTableVal(hi)), b, invIdx, GoTableVal(lo))
         IN  ReverseCompInplaceScalar(m3, b, idx + 1, nByte)

\* The middle element of an odd-length buffer is complemented where it is.
ReverseCompInplaceMiddle(m, b, nByteDiv2) ==
    LET v == GoVal(m, b, nByteDiv2)
    IN  GoStore(GoTableRead(GoRead(m, b, nByteDiv2), v), b, nByteDiv2, GoTableVal(v))

ReverseCompInplaceUseScalar(nByte) == nByte <= bytesPerVec

ReverseCompInplace(m, b) ==
    LET nByte == len[b]
    IN  IF ReverseCompInplaceUseScalar(nByte)
        THEN LET m1 == ReverseCompInplaceScalar(m, b, 0, nByte)
             IN  IF nByte % 2 = 1
                 THEN ReverseCompInplaceMiddle(m1, b, nByte \div 2)
                 ELSE m1
        ELSE reverseComp4InplaceSSSE3Asm(m, b, nByte)

\* --------------------------------------------------- UnpackAndReplaceSeq

\* Mutant: even and odd positions exchanged.
UnpackAndReplaceVecLo_Swapped(X0, X3) ==
    PUNPCKLBW(PSHUFB(X0, PAND(X3, Mask0f0f)), PSHUFB(X0, PAND(PSRLQ4(X3), Mask0f0f)))

\* The loop body of unpackAndReplaceSeqOddSSSE3Asm: X0 is the table, X3 the
\* vector loaded from src.
UnpackAndReplaceVecLo(X0, X3) ==
    PUNPCKLBW(PSHUFB(X0, PAND(PSRLQ4(X3), Mask0f0f)), PSHUFB(X0, PAND(X3, Mask0f0f)))

UnpackAndReplaceVecHi(X0, X3) ==
    PUNPCKHBW(PSHUFB(X0, PAND(PSRLQ4(X3), Mask0f0f)), PSHUFB(X0, PAND(X3, Mask0f0f)))

RECURSIVE unpackAndReplaceSeqOddSSSE3Loop(_, _, _, _, _, _, _)
unpackAndReplaceSeqOddSSSE3Loop(m, d, s, X0, DI, R8, CX) ==
    LET X3 == LoadVec(m, s, DI)
        m1 == MOVOUstore(
                  MOVOUstore(MOVOUload(m, s, DI), d, R8, UnpackAndReplaceVecLo(X0, X3)),
                  d, R8 + 16, UnpackAndReplaceVecHi(X0, X3))
    IN  IF CX > DI + 16
        THEN unpackAndReplaceSeqOddSSSE3Loop(m1, d, s, X0, DI + 16, R8 + 32, CX)
        ELSE m1

unpackAndReplaceSeqOddSSSE3Asm(m, d, s, tablePtr, nSrcFullByte) ==
    LET X0 == tablePtr
        CX == nSrcFullByte - 16
        AX == 2 * CX
        m1 == unpackAndReplaceSeqOddSSSE3Loop(m, d, s, X0, 0, 0, CX)
        X3 == LoadVec(m1, s, CX)
    IN  MOVOUstore(
            MOVOUstore(MOVOUload(m1, s, CX), d, AX, UnpackAndReplaceVecLo(X0, X3)),
            d, AX + 16, UnpackAndReplaceVecHi(X0, X3))

RECURSIVE UnpackAndReplaceSeqScalar(_, _, _, _, _, _)
UnpackAndReplaceSeqScalar(m, d, s, tablePtr, srcPos, nSrcFullByte) ==
    IF srcPos >= nSrcFullByte \/ m.res # "ok" THEN m
    ELSE LET srcByte == GoVal(m, s, srcPos)
             m1 == GoStore(
                       GoStore(GoRead(m, s, srcPos), d, 2 * srcPos, tablePtr[Shr4(srcByte)]),
                       d, 2 * srcPos + 1, tablePtr[Low4(srcByte)])
         IN  UnpackAndReplaceSeqScalar(m1, d, s, tablePtr, srcPos + 1, nSrcFullByte)

\* Mutant: the odd last code is looked up from the low nibble.
UnpackAndReplaceSeqTail_LowNibble(m, d, s, tablePtr, nSrcFullByte) ==
    GoStore(GoRead(m, s, nSrcFullByte), d, 2 * nSrcFullByte,
            tablePtr[Low4(GoVal(m, s, nSrcFullByte))])

UnpackAndReplaceSeqTail(m, d, s, tablePtr, nSrcFullByte) ==
    GoStore(GoRead(m, s, nSrcFullByte), d, 2 * nSrcFullByte,
            tablePtr[Shr4(GoVal(m, s, nSrcFullByte))])

UnpackAndReplaceSeqLenOk(d, s) == len[s] = (len[d] \div 2) + (len[d] % 2)

\* Mutant: one full vector of src still goes to the scalar loop.
UnpackAndReplaceSeqUseScalar_Le(nSrcFullByte) == nSrcFullByte <= bytesPerVec

UnpackAndReplaceSeqUseScalar(nSrcFullByte) == nSrcFullByte < bytesPerVec

UnpackAndReplaceSeq(m, d, s, tablePtr) ==
    LET dstLen == len[d]
        nSrcFullByte == dstLen \div 2
        srcOdd == dstLen % 2
    IN  IF ~UnpackAndReplaceSeqLenOk(d, s) THEN Panic(m)
        ELSE LET m1 == IF UnpackAndReplaceSeqUseScalar(nSrcFullByte)
                       THEN UnpackAndReplaceSeqScalar(m, d, s, tablePtr, 0, nSrcFullByte)
                       ELSE unpackAndReplaceSeqOddSSSE3Asm(m, d, s, tablePtr, nSrcFullByte)
             IN  IF srcOdd = 1
                 THEN UnpackAndReplaceSeqTail(m1, d, s, tablePtr, nSrcFullByte)
                 ELSE m1

\* ------------------------------------------------------- UnpackSeqUnsafe

\* simd.DivUpPow2(dividend, divisor, log2Divisor):
\* (dividend + divisor - 1) >> log2Divisor.
DivUpPow2(dividend, divisor, log2Divisor) ==
    (dividend + divisor - 1) \div (2 ^ log2Divisor)

\* unpackSeqSSE2Loop: DI, R8 are the offsets into src and dst, AX the offset
\* "nSrcByte - 8".  The body runs before the test AX > DI.  Returns the
\* machine and the final DI, R8.
RECURSIVE unpackSeqSSE2Loop(_, _, _, _, _, _)
unpackSeqSSE2Loop(m, d, s, DI, R8, AX) ==
    LET X1 == LoadVec(m, s, DI)
        m1 == MOVOUstore(
                  MOVOUstore(MOVOUload(m, s, DI), d, R8, UnpackVecLo(X1)),
                  d, R8 + 16, UnpackVecHi(X1))
    IN  IF AX > DI + 16
        THEN unpackSeqSSE2Loop(m1, d, s, DI + 16, R8 + 32, AX)
        ELSE [m |-> m1, DI |-> DI + 16, R8 |-> R8 + 32]

\* unpackSeqSSE2Final: one more source vector is loaded, and only its low
\* half is unpacked and stored.
unpackSeqSSE2Final(m, d, s, DI, R8) ==
    MOVOUstore(MOVOUload(m, s, DI), d, R8, UnpackVecLo(LoadVec(m, s, DI)))

\* unpackSeqSSE2Asm reads its third argument as a count of source bytes:
\* AX = src + nSrcByte - 8, and the loop is skipped when AX <= src.
unpackSeqSSE2Asm(m, d, s, nSrcByte) ==
    LET AX == nSrcByte - 8
    IN  IF AX <= 0 THEN unpackSeqSSE2Final(m, d, s, 0, 0)
        ELSE LET r == unpackSeqSSE2Loop(m, d, s, 0, 0, AX)
             IN  unpackSeqSSE2Final(r.m, d, s, r.DI, r.R8)

\* UnpackSeqUnsafe hands the assembly routine nDstVec, a count of
\* destination vectors.
UnpackSeqUnsafe(m, d, s) ==
    LET dstLen == len[d]
        nDstVec == DivUpPow2(dstLen, bytesPerVec, log2BytesPerVec)
    IN  unpackSeqSSE2Asm(m, d, s, nDstVec)

\* --------------------------------------------------------- PackSeqUnsafe

\* PEXTRQ $0, X, (ptr): an unchecked store of the low eight bytes of X at
\* offset a of buffer b.
PEXTRQ0store(m, b, a, x) ==
    [m EXCEPT
        !.mem[b] = [i \in DOMAIN @ |-> IF a <= i /\ i < a + 8 THEN x[i - a] ELSE @[i]],
        !.wr[b] = @ \cup (a .. a + 7)]

\* packSeqSSE41Loop: DI, R8 are the offsets into src and dst, AX the offset
\* "nSrcByte - 16".  The body runs before the test AX > DI.  Returns the
\* machine and the final DI, R8.
RECURSIVE packSeqSSE41Loop(_, _, _, _, _, _)
packSeqSSE41Loop(m, d, s, DI, R8, AX) ==
    LET X2 == LoadVec(m, s, DI)
        X3 == LoadVec(m, s, DI + 16)
        m1 == MOVOUstore(MOVOUload(MOVOUload(m, s, DI), s, DI + 16),
                         d, R8, PackVec(X2, X3))
    IN  IF AX > DI + 32
        THEN packSeqSSE41Loop(m1, d, s, DI + 32, R8 + 16, AX)
        ELSE [m |-> m1, DI |-> DI + 32, R8 |-> R8 + 16]

\* packSeqSSE41Final: one more source vector is packed into eight bytes.
packSeqSSE41Final(m, d, s, DI, R8) ==
    LET X2 == LoadVec(m, s, DI)
    IN  PEXTRQ0store(MOVOUload(m, s, DI), d, R8,
                     PSHUFB(POR(PSLLQ12(X2), X2), GatherOddLow))

\* packSeqSSE41Asm reads its third argument as a count of source bytes:
\* AX = src + nSrcByte - 16, and the loop is skipped when AX <= src.
packSeqSSE41Asm(m, d, s, nSrcByte) ==
    LET AX == nSrcByte - 16
    IN  IF AX <= 0 THEN packSeqSSE41Final(m, d, s, 0, 0)
        ELSE LET r == packSeqSSE41Loop(m, d, s, 0, 0, AX)
             IN  packSeqSSE41Final(r.m, d, s, r.DI, r.R8)

\* PackSeqUnsafe hands the assembly routine nSrcVec, a count of source
\* vectors; then, for an odd srcLen,
\* dst[srcLen>>1] = src[srcLen-1] << 4 (bounds-checked Go).
PackSeqUnsafe(m, d, s) ==
    LET srcLen == len[s]
        nSrcVec == (srcLen + bytesPerVec - 2) \div (2 ^ log2BytesPerVec)
        m1 == packSeqSSE41Asm(m, d, s, nSrcVec)
    IN  IF srcLen % 2 = 1
        THEN GoStore(GoRead(m1, s, srcLen - 1), d, srcLen \div 2,
                     Shl4(GoVal(m1, s, srcLen - 1)))
        ELSE m1

\* --------------------------------------------- UnpackAndReplaceSeqUnsafe

\* unpackAndReplaceSeqSSSE3Loop: X0 is the table; DI, R8 are the offsets
\* into src and dst, AX the offset "nSrcByte - 8".  Returns the machine and
\* the final DI, R8.
RECURSIVE unpackAndReplaceSeqSSSE3Loop(_, _, _, _, _, _, _)
unpackAndReplaceSeqSSSE3Loop(m, d, s, X0, DI, R8, AX) ==
    LET X3 == LoadVec(m, s, DI)
        m1 == MOVOUstore(
                  MOVOUstore(MOVOUload(m, s, DI), d, R8, UnpackAndReplaceVecLo(X0, X3)),
                  d, R8 + 16, UnpackAndReplaceVecHi(X0, X3))
    IN  IF AX > DI + 16
        THEN unpackAndReplaceSeqSSSE3Loop(m1, d, s, X0, DI + 16, R8 + 32, AX)
        ELSE [m |-> m1, DI |-> DI + 16, R8 |-> R8 + 32]

unpackAndReplaceSeqSSSE3Final(m, d, s, X0, DI, R8) ==
    MOVOUstore(MOVOUload(m, s, DI), d, R8,
               UnpackAndReplaceVecLo(X0, LoadVec(m, s, DI)))

\* MOVOU (SI), X0 loads the sixteen table bytes; the third argument is read
\* as a count of source bytes, as in unpackSeqSSE2Asm.
unpackAndReplaceSeqSSSE3Asm(m, d, s, tablePtr, nSrcByte) ==
    LET X0 == [j \in Lanes |-> tablePtr[j]]
        AX == nSrcByte - 8
    IN  IF AX <= 0 THEN unpackAndReplaceSeqSSSE3Final(m, d, s, X0, 0, 0)
        ELSE LET r == unpackAndReplaceSeqSSSE3Loop(m, d, s, X0, 0, 0, AX)
             IN  unpackAndReplaceSeqSSSE3Final(r.m, d, s, X0, r.DI, r.R8)

\* No length is compared here, whatever the doc comment says.
UnpackAndReplaceSeqUnsafe(m, d, s, tablePtr) ==
    LET dstLen == len[d]
        nDstVec == DivUpPow2(dstLen, bytesPerVec, log2BytesPerVec)
    IN  unpackAndReplaceSeqSSSE3Asm(m, d, s, tablePtr, nDstVec)

\* ----------------------------------------------------- ReverseCompUnsafe

Reverse8Minus16 ==
    Vec(<<\hff, \hfe, \hfd, \hfc, \hfb, \hfa, \hf9, \hf8,
          \hf7, \hf6, \hf5, \hf4, \hf3, \hf2, \hf1, \hf0>>)

\* PADDB b, a: lane-wise sum modulo 256.
PADDB(a, b) == [j \in Lanes |-> (a[j] + b[j]) % 256]

\* MOVD r, X: the low four bytes of r in lanes 0 .. 3, zero above.
MOVD(r) == [j \in Lanes |-> IF j < 4 THEN (r \div (256 ^ j)) % 256 ELSE 0]

\* PXOR X3, X3; PSHUFB X3, X2; PADDB X0, X2: lane j becomes nByte-1-j
\* modulo 256, so that bit 7 is set in the lanes at and beyond nByte.
TinyShuffle(nByte) ==
    PADDB(PSHUFB(MOVD(nByte), PXOR(Reverse8Minus16, Reverse8Minus16)),
          Reverse8Minus16)

\* Mutant: the bytes are reversed and not complemented.
ReverseCompTinyVec_NoLookup(X3, nByte) == PSHUFB(X3, TinyShuffle(nByte))

\* PSHUFB X2, X3; PSHUFB X3, X1: the loaded vector X3 reversed within its
\* first nByte lanes, then looked up in the table register.
ReverseCompTinyVec(X3, nByte) ==
    PSHUFB(ReverseComp4Lookup, PSHUFB(X3, TinyShuffle(nByte)))

reverseComp4TinySSSE3Asm(m, d, s, nByte) ==
    MOVOUstore(MOVOUload(m, s, 0), d, 0, ReverseCompTinyVec(LoadVec(m, s, 0), nByte))

reverseComp4InplaceTinySSSE3Asm(m, b, nByte) ==
    MOVOUstore(MOVOUload(m, b, 0), b, 0, ReverseCompTinyVec(LoadVec(m, b, 0), nByte))

ReverseCompUnsafe(m, d, s) ==
    LET nByte == len[s]
    IN  IF nByte <= bytesPerVec
        THEN reverseComp4TinySSSE3Asm(m, d, s, nByte)
        ELSE reverseComp4SSSE3Asm(m, d, s, nByte)

\* Mutant: the bulk routine is entered whatever the length.
ReverseCompUnsafeInplace_NoTiny(m, b) ==
    reverseComp4InplaceSSSE3Asm(m, b, len[b])

ReverseCompUnsafeInplace(m, b) ==
    LET nByte == len[b]
    IN  IF nByte <= bytesPerVec
        THEN reverseComp4InplaceTinySSSE3Asm(m, b, nByte)
        ELSE reverseComp4InplaceSSSE3Asm(m, b, nByte)

\* ------------------------------------------------------ the caller's data

\* Byte i of input pattern p: the even patterns are codes 0 .. 15, the odd
\* ones arbitrary bytes.  Neither repeats with period 16.
Gen(p, i) ==
    LET h == i * i * (2 * p + 3) + 7 * i + 5 * p + (i \div 16)
    IN  IF p % 2 = 0 THEN h % 16 ELSE (37 * h + 11) % 256

\* What a fresh destination buffer holds, and what lies between len and cap.
FillByte == \ha5
PadByte == \hee

Alloc(b, n, p) ==
    [i \in 0 .. RoundUpPow2(n + 1) - 1 |->
        IF i >= n THEN PadByte ELSE IF b = "A" THEN Gen(p, i) ELSE FillByte]

\* The lengths the caller may give buffer B for a buffer A of n bytes.
DstLens(n) == {(n + 1) \div 2, n, 2 * n - 1, 2 * n} \cap (0 .. MaxLen)

\* The first call works from A into B, the second from B into C.
DstArg == IF calls = <<>> THEN "B" ELSE "C"
SrcArg == IF calls = <<>> THEN "A" ELSE "B"

NoTable == <<>>

\* The 16-entry tables a caller passes to UnpackAndReplaceSeq: the .bam
\* code-to-ASCII table "=ACMGRSVTWYHKDBN" and one with bit 7 set in places.
Tables ==
    { [x \in 0 .. 15 |->
          <<61, 65, 67, 77, 71, 82, 83, 86, 84, 87, 89, 72, 75, 68, 66, 78>>[x + 1]],
      [x \in 0 .. 15 |-> 255 - 13 * x] }

Init ==
    \E n \in 0 .. MaxLen, p \in 0 .. MaxPat :
        \E lb \in DstLens(n) :
            /\ bytesPerVec = 0
            /\ log2BytesPerVec = 0
            /\ phase = "start"
            /\ pat = p
            /\ len = [b \in Bufs |-> IF b = "B" THEN lb ELSE n]
            /\ mem = [b \in Bufs |-> Alloc(b, IF b = "B" THEN lb ELSE n, p)]
            /\ pre = [b \in Bufs |-> Alloc(b, IF b = "B" THEN lb ELSE n, p)]
            /\ rd = NoAccess
            /\ wr = NoAccess
            /\ calls = <<>>
            /\ thr = <<>>
            /\ shard = <<>>
            /\ gps = <<>>
            /\ ch = <<>>
            /\ gen = <<>>
            /\ gbs = <<>>

\* Mutant: init goes on without SSE4.2, leaving the width unset.
PkgInit_NoPanic ==
    /\ phase = "start"
    /\ phase' = "ready"
    /\ \E hasSSE42 \in BOOLEAN :
        IF ~hasSSE42
        THEN UNCHANGED <<bytesPerVec, log2BytesPerVec>>
        ELSE bytesPerVec' = 16 /\ log2BytesPerVec' = 4
    /\ UNCHANGED <<pat, len, mem, pre, rd, wr, calls, thr, shard, gps,
                 ch, gen, gbs>>

\* func init(): panics unless hasSSE42Asm(), else sets the vector width.
PkgInit ==
    /\ phase = "start"
    /\ \E hasSSE42 \in BOOLEAN :
        IF ~hasSSE42
        THEN /\ phase' = "aborted"
             /\ UNCHANGED <<bytesPerVec, log2BytesPerVec>>
        ELSE /\ phase' = "ready"
             /\ bytesPerVec' = 16
             /\ log2BytesPerVec' = 4
    /\ UNCHANGED <<pat, len, mem, pre, rd, wr, calls, thr, shard, gps,
                 ch, gen, gbs>>

\* The state after a call that ended in machine state r.
Return(op, d, s, t, r) ==
    /\ mem' = r.mem
    /\ rd' = r.rd
    /\ wr' = r.wr
    /\ pre' = mem
    /\ calls' = Append(calls, [op |-> op, dst |-> d, src |-> s, table |-> t, res |-> r.res])
    /\ phase' = IF r.res = "ok" THEN "ready" ELSE "panicked"
    /\ UNCHANGED <<bytesPerVec, log2BytesPerVec, pat, len, thr, shard, gps,
                 ch, gen, gbs>>

CanCall == phase = "ready" /\ Len(calls) < 2

CallUnpackSeq ==
    /\ CanCall
    /\ Return("UnpackSeq", DstArg, SrcArg, NoTable, UnpackSeq(Machine(mem), DstArg, SrcArg))

CallPackSeq ==
    /\ CanCall
    /\ Return("PackSeq", DstArg, SrcArg, NoTable, PackSeq(Machine(mem), DstArg, SrcArg))

CallReverseComp ==
    /\ CanCall
    /\ Return("ReverseComp", DstArg, SrcArg, NoTable,
              ReverseComp(Machine(mem), DstArg, SrcArg))

\* The in-place transform always works on buffer A.
CallReverseCompInplace ==
    /\ CanCall
    /\ Return("ReverseCompInplace", "A", "A", NoTable, ReverseCompInplace(Machine(mem), "A"))

CallUnpackAndReplaceSeq ==
    /\ CanCall
    /\ \E t \in Tables :
        Return("UnpackAndReplaceSeq", DstArg, SrcArg, t,
               UnpackAndReplaceSeq(Machine(mem), DstArg, SrcArg, t))

\* The 2-bit routine has no Go wrapper here; it is entered directly, under
\* the precondition its twin reverseComp4SSSE3Asm states (nByte >= 16) and
\* with dst as long as src.
CallReverseComp2 ==
    /\ CanCall
    /\ len[DstArg] = len[SrcArg]
    /\ len[SrcArg] >= 16
    /\ Return("reverseComp2SSSE3Asm", DstArg, SrcArg, NoTable,
              reverseComp2SSSE3Asm(Machine(mem), DstArg, SrcArg, len[SrcArg]))

\* The unchecked entry points.  The caller keeps the length contract
\* (assumption 1 of each doc comment); the capacities are Alloc's.
CallUnpackSeqUnsafe ==
    /\ CanCall
    /\ len[SrcArg] = (len[DstArg] + 1) \div 2
    /\ Return("UnpackSeqUnsafe", DstArg, SrcArg, NoTable,
              UnpackSeqUnsafe(Machine(mem), DstArg, SrcArg))

CallPackSeqUnsafe ==
    /\ CanCall
    /\ len[DstArg] = (len[SrcArg] + 1) \div 2
    /\ Return("PackSeqUnsafe", DstArg, SrcArg, NoTable,
              PackSeqUnsafe(Machine(mem), DstArg, SrcArg))

CallUnpackAndReplaceSeqUnsafe ==
    /\ CanCall
    /\ len[SrcArg] = (len[DstArg] + 1) \div 2
    /\ \E t \in Tables :
        Return("UnpackAndReplaceSeqUnsafe", DstArg, SrcArg, t,
               UnpackAndReplaceSeqUnsafe(Machine(mem), DstArg, SrcArg, t))

\* UnpackAndReplaceSeqUnsafe(dst, src, tablePtr) by a caller that breaks
\* assumption 1: len(src) is not (len(dst) + 1) / 2.
CallUnpackAndReplaceSeqUnsafeMismatch ==
    /\ CanCall
    /\ len[SrcArg] # (len[DstArg] + 1) \div 2
    /\ \E t \in Tables :
        Return("UnpackAndReplaceSeqUnsafe", DstArg, SrcArg, t,
               UnpackAndReplaceSeqUnsafe(Machine(mem), DstArg, SrcArg, t))

MismatchNext ==
    \/ PkgInit
    \/ CallUnpackAndReplaceSeqUnsafeMismatch

MismatchSpec == Init /\ [][MismatchNext]_vars

CallReverseCompUnsafe ==
    /\ CanCall
    /\ len[SrcArg] = len[DstArg]
    /\ Return("ReverseCompUnsafe", DstArg, SrcArg, NoTable,
              ReverseCompUnsafe(Machine(mem), DstArg, SrcArg))

CallReverseCompUnsafeInplace ==
    /\ CanCall
    /\ Return("ReverseCompUnsafeInplace", "A", "A", NoTable,
              ReverseCompUnsafeInplace(Machine(mem), "A"))

Next ==
    \/ PkgInit
    \/ CallUnpackSeq
    \/ CallPackSeq
    \/ CallReverseComp
    \/ CallReverseCompInplace
    \/ CallUnpackAndReplaceSeq
    \/ CallReverseComp2

Spec == Init /\ [][Next]_vars

\* The program as a caller of the unchecked entry points.
UnsafeNext ==
    \/ PkgInit
    \/ CallUnpackSeqUnsafe
    \/ CallPackSeqUnsafe
    \/ CallUnpackAndReplaceSeqUnsafe
    \/ CallReverseCompUnsafe
    \/ CallReverseCompUnsafeInplace

UnsafeSpec == Init /\ [][UnsafeNext]_vars

\* ------------------------------------------------------- concurrent calls

\* Two goroutines call ReverseCompUnsafeInplace, each on a buffer of its
\* own; every MOVOU load and store is a step of its own.

\* Mutant: both goroutines are handed buffer A.
ThreadBuf_Shared(i) == "A"

ThreadBuf(i) == IF i = 1 THEN "A" ELSE "B"

\* Mutant: the loop bound is one vector too far (LEAQ -8 for -24).
Enter_LongLoop(b) ==
    LET nByte == len[b]
        BX == InplaceBX(nByte)
        CX == ((nByte - 1) \div 2) + 2 * BX
        AX == CX - 8
        X == [j \in Lanes |-> 0]
    IN  IF nByte <= bytesPerVec
        THEN [buf |-> b, pc |-> "TinyLoad", nByte |-> nByte, SI |-> 0, DI |-> 0,
              AX |-> 0, BX |-> 0, X2 |-> X, X3 |-> X, X4 |-> X,
              nLoop |-> 0, nLastThree |-> 0]
        ELSE [buf |-> b, pc |-> IF AX < 0 THEN "Three1" ELSE "Loop1",
              nByte |-> nByte, SI |-> 0, DI |-> nByte - 16,
              AX |-> AX, BX |-> BX, X2 |-> X, X3 |-> X, X4 |-> X,
              nLoop |-> 0, nLastThree |-> 0]

\* ReverseCompUnsafeInplace(seq8) up to the first memory access of the
\* routine it enters: the Go test on bytesPerVec and the register set-up of
\* reverseComp4InplaceSSSE3Asm (DI, BX, CX, AX and the first branch).
\* nLoop and nLastThree count the passes of the Loop block and of the
\* LastThree block that the call has completed.
Enter(b) ==
    LET nByte == len[b]
        BX == InplaceBX(nByte)
        CX == ((nByte - 1) \div 2) + 2 * BX
        AX == CX - 24
        X == [j \in Lanes |-> 0]
    IN  IF nByte <= bytesPerVec
        THEN [buf |-> b, pc |-> "TinyLoad", nByte |-> nByte, SI |-> 0, DI |-> 0,
              AX |-> 0, BX |-> 0, X2 |-> X, X3 |-> X, X4 |-> X,
              nLoop |-> 0, nLastThree |-> 0]
        ELSE [buf |-> b, pc |-> IF AX < 0 THEN "Three1" ELSE "Loop1",
              nByte |-> nByte, SI |-> 0, DI |-> nByte - 16,
              AX |-> AX, BX |-> BX, X2 |-> X, X3 |-> X, X4 |-> X,
              nLoop |-> 0, nLastThree |-> 0]

\* One load or store of goroutine t on machine m, with the register
\* instructions that follow it up to the next memory access.  X2, X3, X4
\* hold the vectors as loaded; the shuffles are applied where they are
\* stored.
InplaceStep(t, m) ==
    LET b == t.buf
    IN  CASE t.pc = "TinyLoad" ->
                 [t |-> [t EXCEPT !.pc = "TinyStore", !.X3 = LoadVec(m, b, 0)],
                  m |-> MOVOUload(m, b, 0)]
          [] t.pc = "TinyStore" ->
                 [t |-> [t EXCEPT !.pc = "ret"],
                  m |-> MOVOUstore(m, b, 0, ReverseCompTinyVec(t.X3, t.nByte))]
          [] t.pc = "Loop1" ->
                 [t |-> [t EXCEPT !.pc = "Loop2", !.X2 = LoadVec(m, b, t.SI)],
                  m |-> MOVOUload(m, b, t.SI)]
          [] t.pc = "Loop2" ->
                 [t |-> [t EXCEPT !.pc = "Loop3", !.X3 = LoadVec(m, b, t.DI)],
                  m |-> MOVOUload(m, b, t.DI)]
          [] t.pc = "Loop3" ->
                 [t |-> [t EXCEPT !.pc = "Loop4"],
                  m |-> MOVOUstore(m, b, t.SI, ReverseCompVec(t.X3))]
          [] t.pc = "Loop4" ->
                 [t |-> [t EXCEPT !.SI = @ + 16, !.DI = @ - 16, !.nLoop = @ + 1,
                                  !.pc = IF t.AX >= t.SI + 16 THEN "Loop1"
                                         ELSE IF t.BX # 0 THEN "ret" ELSE "Three1"],
                  m |-> MOVOUstore(m, b, t.DI, ReverseCompVec(t.X2))]
          [] t.pc = "Three1" ->
                 [t |-> [t EXCEPT !.pc = "Three2", !.X2 = LoadVec(m, b, t.SI)],
                  m |-> MOVOUload(m, b, t.SI)]
          [] t.pc = "Three2" ->
                 [t |-> [t EXCEPT !.pc = "Three3", !.X3 = LoadVec(m, b, t.SI + 16)],
                  m |-> MOVOUload(m, b, t.SI + 16)]
          [] t.pc = "Three3" ->
                 [t |-> [t EXCEPT !.pc = "Three4", !.X4 = LoadVec(m, b, t.DI)],
                  m |-> MOVOUload(m, b, t.DI)]
          [] t.pc = "Three4" ->
                 [t |-> [t EXCEPT !.pc = "Three5"],
                  m |-> MOVOUstore(m, b, t.SI, ReverseCompVec(t.X4))]
          [] t.pc = "Three5" ->
                 [t |-> [t EXCEPT !.pc = "Three6"],
                  m |-> MOVOUstore(m, b, t.DI - 16, ReverseCompVec(t.X3))]
          [] t.pc = "Three6" ->
                 [t |-> [t EXCEPT !.pc = "ret", !.nLastThree = @ + 1],
                  m |-> MOVOUstore(m, b, t.DI, ReverseCompVec(t.X2))]

\* go ReverseCompUnsafeInplace(a); go ReverseCompUnsafeInplace(b)
ConcStart ==
    /\ phase = "ready"
    /\ thr = <<>>
    /\ len["A"] <= MaxConcLen
    /\ len["B"] <= MaxConcLen
    /\ thr' = [i \in 1 .. 2 |-> Enter(ThreadBuf(i))]
    /\ UNCHANGED <<bytesPerVec, log2BytesPerVec, phase, pat, len, mem, pre, rd, wr,
                   calls, shard, gps, ch, gen, gbs>>

\* The scheduler lets one goroutine do its next load or store.
ThreadStep ==
    \E i \in DOMAIN thr :
        /\ thr[i].pc # "ret"
        /\ LET r == InplaceStep(thr[i], [mem |-> mem, rd |-> rd, wr |-> wr, res |-> "ok"])
           IN  /\ thr' = [thr EXCEPT ![i] = r.t]
               /\ mem' = r.m.mem
               /\ rd' = r.m.rd
               /\ wr' = r.m.wr
        /\ UNCHANGED <<bytesPerVec, log2BytesPerVec, phase, pat, len, pre, calls,
                       shard, gps, ch, gen, gbs>>

\* ReverseCompUnsafeInplace(a), one call on its own.
StepStart ==
    /\ phase = "ready"
    /\ thr = <<>>
    /\ thr' = <<Enter("A")>>
    /\ UNCHANGED <<bytesPerVec, log2BytesPerVec, phase, pat, len, mem, pre, rd, wr,
                   calls, shard, gps, ch, gen, gbs>>

StepNext ==
    \/ PkgInit
    \/ StepStart
    \/ ThreadStep

\* The processor goes on to the next instruction of a call in progress.
StepSpec == Init /\ [][StepNext]_vars /\ WF_vars(ThreadStep)

ConcNext ==
    \/ PkgInit
    \/ ConcStart
    \/ ThreadStep

ConcSpec == Init /\ [][ConcNext]_vars

\* ------------------------------------------------------------- bam.Shard

\* The codec takes no part in the shard specifications.
codecVars ==
    <<bytesPerVec, log2BytesPerVec, phase, pat, len, mem, pre, rd, wr, calls, thr>>

CodecIdle ==
    /\ bytesPerVec = 0
    /\ log2BytesPerVec = 0
    /\ phase = "start"
    /\ pat = 0
    /\ len = [b \in Bufs |-> 0]
    /\ mem = [b \in Bufs |-> <<>>]
    /\ pre = [b \in Bufs |-> <<>>]
    /\ rd = NoAccess
    /\ wr = NoAccess
    /\ calls = <<>>
    /\ thr = <<>>

MaxInt32 == 2147483647

\* A *sam.Reference is its index in the header and its length; the nil
\* pointer has ID() = -1.
Reference(id, n) == [id |-> id, len |-> n]
Nil == [id |-> -1, len |-> -1]

min(x, y) == IF y < x THEN y ELSE x

max(x, y) == IF y > x THEN y ELSE x

\* min(x, a + b) for a Go int (64 bits): a + b itself does not wrap, so the
\* comparison is made without forming a sum beyond the checker's integers.
minOfSum(x, a, b) == IF b > x - a THEN x ELSE min(x, a + b)

PadStart(s, padding) == max(0, s.Start - padding)

PaddedStart(s) == PadStart(s, s.Padding)

\* Mutant: the shard that ends at the end of the previous reference is
\* padded like any other.
PadEnd_NoZeroCase(s, padding) ==
    IF s.EndRef = Nil THEN minOfSum(MaxInt32, s.End, padding)
    ELSE minOfSum(s.EndRef.len, s.End, padding)

PadEnd(s, padding) ==
    IF s.End = 0 /\ s.EndSeq = 0 THEN 0
    ELSE IF s.EndRef = Nil THEN minOfSum(MaxInt32, s.End, padding)
    ELSE minOfSum(s.EndRef.len, s.End, padding)

PaddedEnd(s) == PadEnd(s, s.Padding)

\* The shards put under test: any start, an end that may be zero or
\* math.MaxInt32, an end reference that may be nil or shorter than End.
TestShards ==
    [StartRef : {Reference(0, MaxPos)},
     EndRef : {Nil, Reference(0, MaxPos - 2), Reference(1, MaxPos + 2)},
     Start : 0 .. MaxPos,
     End : (0 .. MaxPos) \cup {MaxInt32},
     StartSeq : {0},
     EndSeq : {0, 1},
     Padding : 0 .. MaxPad,
     ShardIdx : {0}]

PadInit ==
    /\ CodecIdle
    /\ gps = <<>>
    /\ ch = <<>>
    /\ gen = <<>>
    /\ gbs = <<>>
    /\ \E s \in TestShards :
           shard = [s |-> s, method |-> "none", padding |-> 0, ret |-> 0]

CallPadStart ==
    /\ \E padding \in 0 .. MaxPad :
           shard' = [shard EXCEPT !.method = "PadStart", !.padding = padding,
                                  !.ret = PadStart(shard.s, padding)]
    /\ UNCHANGED <<codecVars, gps, ch, gen, gbs>>

CallPaddedStart ==
    /\ shard' = [shard EXCEPT !.method = "PaddedStart", !.padding = shard.s.Padding,
                              !.ret = PaddedStart(shard.s)]
    /\ UNCHANGED <<codecVars, gps, ch, gen, gbs>>

CallPadEnd ==
    /\ \E padding \in 0 .. MaxPad :
           shard' = [shard EXCEPT !.method = "PadEnd", !.padding = padding,
                                  !.ret = PadEnd(shard.s, padding)]
    /\ UNCHANGED <<codecVars, gps, ch, gen, gbs>>

CallPaddedEnd ==
    /\ shard' = [shard EXCEPT !.method = "PaddedEnd", !.padding = shard.s.Padding,
                              !.ret = PaddedEnd(shard.s)]
    /\ UNCHANGED <<codecVars, gps, ch, gen, gbs>>

PadNext ==
    \/ CallPadStart
    \/ CallPaddedStart
    \/ CallPadEnd
    \/ CallPaddedEnd

PadSpec == PadInit /\ [][PadNext]_vars

\* ------------------------------------------------ GetPositionBasedShards

\* ValidateShardList from shard i on: FALSE where the code calls
\* vlog.Fatalf.  prevRef is the local of that name; the padding parameter is
\* not used by the code.
RECURSIVE ValidateFrom(_, _, _)
ValidateFrom(shardList, i, prevRef) ==
    IF i > Len(shardList) THEN TRUE
    ELSE LET s == shardList[i]
             last == Len(shardList)
             firstOfRef == i = 1 \/ s.StartRef # prevRef
         IN  IF s.Start >= s.End THEN FALSE
             ELSE IF s.StartRef = Nil
                  THEN (IF i = last THEN ValidateFrom(shardList, i + 1, prevRef)
                        ELSE FALSE)
             ELSE IF firstOfRef /\ s.Start # 0 THEN FALSE
             ELSE IF ~firstOfRef /\ s.Start # shardList[i - 1].End THEN FALSE
             ELSE IF /\ i < last
                     /\ shardList[i + 1].StartRef # s.StartRef
                     /\ s.End # s.StartRef.len
                  THEN FALSE
             ELSE IF s.Padding < 0 THEN FALSE
             ELSE ValidateFrom(shardList, i + 1, s.StartRef)

ValidateShardList(shardList, padding) == ValidateFrom(shardList, 1, Nil)

\* header.Refs(): up to MaxRefs references of 1 .. MaxRefLen bases (a
\* sam.Reference has a positive length), each with its index as ID.
Headers ==
    UNION { [1 .. k -> 1 .. MaxRefLen] : k \in 0 .. MaxRefs }

GpsInit ==
    /\ CodecIdle
    /\ shard = <<>>
    /\ ch = <<>>
    /\ gen = <<>>
    /\ gbs = <<>>
    /\ \E h \in Headers, shardSize \in 0 .. MaxShardSize, padding \in {-1, 0, MaxPad},
          includeUnmapped \in BOOLEAN :
           gps = [refs |-> [k \in DOMAIN h |-> Reference(k - 1, h[k])],
                  shardSize |-> shardSize,
                  padding |-> padding,
                  includeUnmapped |-> includeUnmapped,
                  pc |-> "range",
                  r |-> 0,
                  start |-> 0,
                  shardIdx |-> 0,
                  shards |-> <<>>]

\* The inner loop is over for the current reference (or no reference has
\* been taken yet).
GpsRefDone == IF gps.r = 0 THEN TRUE ELSE gps.start >= gps.refs[gps.r].len

\* for _, ref := range header.Refs() { var start int
GpsNextRef ==
    /\ gps.pc = "range"
    /\ GpsRefDone
    /\ gps.r < Len(gps.refs)
    /\ gps' = [gps EXCEPT !.r = @ + 1, !.start = 0]
    /\ UNCHANGED <<codecVars, shard, ch, gen, gbs>>

\* Mutant: the last shard of a reference is not cut at its end.
GpsAppend_NoMin ==
    /\ gps.pc = "range"
    /\ ~GpsRefDone
    /\ Len(gps.shards) < MaxShards
    /\ LET ref == gps.refs[gps.r]
           end == gps.start + gps.shardSize
       IN  gps' = [gps EXCEPT
                       !.shards = Append(@, [StartRef |-> ref, EndRef |-> ref,
                                             Start |-> gps.start, End |-> end,
                                             StartSeq |-> 0, EndSeq |-> 0,
                                             Padding |-> gps.padding,
                                             ShardIdx |-> gps.shardIdx]),
                       !.start = @ + gps.shardSize,
                       !.shardIdx = @ + 1]
    /\ UNCHANGED <<codecVars, shard, ch, gen, gbs>>

\* One pass of "for start < ref.Len()".
GpsAppend ==
    /\ gps.pc = "range"
    /\ ~GpsRefDone
    /\ Len(gps.shards) < MaxShards
    /\ LET ref == gps.refs[gps.r]
           end == min(gps.start + gps.shardSize, ref.len)
       IN  gps' = [gps EXCEPT
                       !.shards = Append(@, [StartRef |-> ref, EndRef |-> ref,
                                             Start |-> gps.start, End |-> end,
                                             StartSeq |-> 0, EndSeq |-> 0,
                                             Padding |-> gps.padding,
                                             ShardIdx |-> gps.shardIdx]),
                       !.start = @ + gps.shardSize,
                       !.shardIdx = @ + 1]
    /\ UNCHANGED <<codecVars, shard, ch, gen, gbs>>

\* After the loops: the unmapped shard if asked for, ValidateShardList, and
\* the return (or the exit of vlog.Fatalf).
GpsFinish ==
    /\ gps.pc = "range"
    /\ GpsRefDone
    /\ gps.r = Len(gps.refs)
    /\ LET shards == IF gps.includeUnmapped
                     THEN Append(gps.shards,
                                 [StartRef |-> Nil, EndRef |-> Nil,
                                  Start |-> 0, End |-> MaxInt32,
                                  StartSeq |-> 0, EndSeq |-> 0,
                                  Padding |-> 0, ShardIdx |-> gps.shardIdx])
                     ELSE gps.shards
       IN  gps' = [gps EXCEPT
                       !.shards = shards,
                       !.pc = IF ValidateShardList(shards, gps.padding)
                              THEN "return" ELSE "fatal"]
    /\ UNCHANGED <<codecVars, shard, ch, gen, gbs>>

GpsNext ==
    \/ GpsNextRef
    \/ GpsAppend
    \/ GpsFinish

GpsSpec == GpsInit /\ [][GpsNext]_vars

\* The same run under the assumption that the function, once called, goes
\* on executing its next statement.
GpsFairSpec == GpsInit /\ [][GpsNext]_vars /\ WF_vars(GpsNext)

\* ------------------------------------------------------- NewShardChannel

\* The shard lists handed to NewShardChannel: any list, repeats included.
ChanShard(start) ==
    [StartRef |-> Reference(0, MaxRefLen), EndRef |-> Reference(0, MaxRefLen),
     Start |-> start, End |-> start + 1, StartSeq |-> 0, EndSeq |-> 0,
     Padding |-> 0, ShardIdx |-> 0]

ChanShardLists ==
    UNION { [1 .. k -> {ChanShard(0), ChanShard(1)}] : k \in 0 .. MaxChanLen }

ChanInit ==
    /\ CodecIdle
    /\ shard = <<>>
    /\ gps = <<>>
    /\ gen = <<>>
    /\ gbs = <<>>
    /\ \E shards \in ChanShardLists, n \in 1 .. MaxConsumers :
           ch = [shards |-> shards,
                 pc |-> "make",
                 cap |-> 0,
                 buf |-> <<>>,
                 closed |-> FALSE,
                 i |-> 1,
                 got |-> [c \in 1 .. n |-> <<>>],
                 done |-> [c \in 1 .. n |-> FALSE]]

\* Mutant: an unbuffered channel.
ChanCap_Unbuffered(shards) == 0

\* make(chan Shard, len(shards)): the capacity of the buffer.
ChanCap(shards) == Len(shards)

\* shardChan := make(chan Shard, len(shards))
ChanMake ==
    /\ ch.pc = "make"
    /\ ch' = [ch EXCEPT !.cap = ChanCap(ch.shards), !.pc = "send"]
    /\ UNCHANGED <<codecVars, shard, gps, gen, gbs>>

\* shardChan <- shard: a send goes on only while the buffer has room (no
\* receiver exists before the function returns); otherwise it blocks.
ChanSend ==
    /\ ch.pc = "send"
    /\ ch.i <= Len(ch.shards)
    /\ Len(ch.buf) < ch.cap
    /\ ch' = [ch EXCEPT !.buf = Append(@, ch.shards[ch.i]), !.i = @ + 1]
    /\ UNCHANGED <<codecVars, shard, gps, gen, gbs>>

\* close(shardChan); return shardChan
ChanClose ==
    /\ ch.pc = "send"
    /\ ch.i > Len(ch.shards)
    /\ ch' = [ch EXCEPT !.closed = TRUE, !.pc = "return"]
    /\ UNCHANGED <<codecVars, shard, gps, gen, gbs>>

\* for s := range shardChan, one pass in consumer c: the head of the buffer.
ChanRecv ==
    /\ ch.pc = "return"
    /\ \E c \in DOMAIN ch.got :
        /\ ~ch.done[c]
        /\ ch.buf # <<>>
        /\ ch' = [ch EXCEPT !.got[c] = Append(@, Head(ch.buf)), !.buf = Tail(@)]
    /\ UNCHANGED <<codecVars, shard, gps, gen, gbs>>

\* The range of consumer c ends: the channel is closed and drained.
ChanRangeEnd ==
    /\ ch.pc = "return"
    /\ \E c \in DOMAIN ch.got :
        /\ ~ch.done[c]
        /\ ch.buf = <<>>
        /\ ch.closed
        /\ ch' = [ch EXCEPT !.done[c] = TRUE]
    /\ UNCHANGED <<codecVars, shard, gps, gen, gbs>>

ChanNext ==
    \/ ChanMake
    \/ ChanSend
    \/ ChanClose
    \/ ChanRecv
    \/ ChanRangeEnd

\* The Go scheduler runs a goroutine that can take a step.
ChanSpec == ChanInit /\ [][ChanNext]_vars /\ WF_vars(ChanNext)

\* -------------------------------------------------------- CoordGenerator

\* biopb.InfinityRefID and biopb.UnmappedRefID: the reference ID of unmapped
\* reads (the package bam keeps the same value as infinityRefID).
InfinityRefID == -1
UnmappedRefID == -1

Coord(refID, pos, seq) == [RefId |-> refID, Pos |-> pos, Seq |-> seq]

\* The place of a reference ID in the order of coordinates: an unmapped
\* sequence is stored after any mapped sequence.
RefOrder(refID) == IF refID = UnmappedRefID THEN MaxInt32 ELSE refID

\* biopb.Coord.Compare: negative, zero or positive as a is before, at or
\* after b in (RefId, Pos, Seq) order.
CoordCompare(a, b) ==
    IF RefOrder(a.RefId) # RefOrder(b.RefId)
    THEN (IF RefOrder(a.RefId) < RefOrder(b.RefId) THEN -1 ELSE 1)
    ELSE IF a.Pos # b.Pos
    THEN (IF a.Pos < b.Pos THEN -1 ELSE 1)
    ELSE IF a.Seq # b.Seq
    THEN (IF a.Seq < b.Seq THEN -1 ELSE 1)
    ELSE 0

\* NewCoordGenerator()
NewCoordGenerator == [LastRec |-> Coord(0, -1, 0)]

\* Mutant: a repeated coordinate does not advance Seq.
Generate_NoSeq(g, refID, pos) ==
    LET pos1 == IF refID = InfinityRefID THEN 0 ELSE pos
        a == Coord(refID, pos1, 0)
    IN  IF refID < UnmappedRefID \/ pos1 < 0
        THEN [g |-> g, res |-> "fatal", ret |-> g.LastRec]
        ELSE IF CoordCompare(a, Coord(g.LastRec.RefId, g.LastRec.Pos, 0)) < 0
        THEN [g |-> g, res |-> "fatal", ret |-> g.LastRec]
        ELSE [g |-> [LastRec |-> a], res |-> "ok", ret |-> a]

\* func (g *CoordGenerator) Generate(refID, pos int32) biopb.Coord: the
\* generator after the call, how the call ended (vlog.Fatalf ends the
\* process) and the coordinate returned.
Generate(g, refID, pos) ==
    LET pos1 == IF refID = InfinityRefID THEN 0 ELSE pos
        a == Coord(refID, pos1, 0)
        p == Coord(g.LastRec.RefId, g.LastRec.Pos, 0)
        cmp == CoordCompare(a, p)
        LastRec == IF cmp = 0
                   THEN [g.LastRec EXCEPT !.Seq = @ + 1]
                   ELSE a
    IN  IF refID < UnmappedRefID \/ pos1 < 0
        THEN [g |-> g, res |-> "fatal", ret |-> g.LastRec]
        ELSE IF cmp < 0
        THEN [g |-> g, res |-> "fatal", ret |-> g.LastRec]
        ELSE [g |-> [LastRec |-> LastRec], res |-> "ok", ret |-> LastRec]

GenInit ==
    /\ CodecIdle
    /\ shard = <<>>
    /\ gps = <<>>
    /\ ch = <<>>
    /\ gbs = <<>>
    /\ gen = [g |-> NewCoordGenerator, res |-> "ok", hist |-> <<>>]

\* g.Generate(refID, pos) with any arguments, legal or not.
CallGenerate ==
    /\ gen.res = "ok"
    /\ Len(gen.hist) < MaxGenCalls
    /\ \E refID \in -2 .. MaxGenRef, pos \in -1 .. MaxGenPos :
           LET r == Generate(gen.g, refID, pos)
           IN  gen' = [g |-> r.g, res |-> r.res,
                       hist |-> Append(gen.hist,
                                       [refID |-> refID, pos |-> pos, ret |-> r.ret])]
    /\ UNCHANGED <<codecVars, shard, gps, ch, gbs>>

GenNext == CallGenerate

GenSpec == GenInit /\ [][GenNext]_vars

\* ---------------------------------------------------- GetByteBasedShards

boundary(pos, filePos) == [pos |-> pos, filePos |-> filePos]

\* "for i := 1; i < len(boundaries); i++" of the second pass, from index i
\* (counted from 1 here) on; acc is boundaries2 so far.
RECURSIVE Boundaries2From(_, _, _, _, _)
Boundaries2From(boundaries, i, acc, bytesPerShard, minBases) ==
    IF i > Len(boundaries) THEN acc
    ELSE LET gap == boundaries[i].filePos - boundaries[i - 1].filePos
             bases == boundaries[i].pos - boundaries[i - 1].pos
             genomeSubdivisions == (bases \div minBases) - 1
             bytesSubdivisions == (gap \div bytesPerShard) - 1
             smaller == IF genomeSubdivisions < bytesSubdivisions
                        THEN genomeSubdivisions ELSE bytesSubdivisions
             subdivisions == IF smaller < 0 THEN 0 ELSE smaller
             subs == IF gap > 2 * bytesPerShard
                     THEN [s \in 1 .. subdivisions |->
                              boundary(boundaries[i - 1].pos
                                         + s * (bases \div (subdivisions + 1)), -1)]
                     ELSE <<>>
         IN  Boundaries2From(boundaries, i + 1, acc \o subs \o <<boundaries[i]>>,
                             bytesPerShard, minBases)

\* boundaries2: large shards cut by genomic position, closed at refLen.
Boundaries2(boundaries, bytesPerShard, minBases, refLen) ==
    LET b2 == Boundaries2From(boundaries, 2, <<boundary(0, -1)>>, bytesPerShard, minBases)
    IN  IF b2[Len(b2)].pos # refLen THEN Append(b2, boundary(refLen, -1)) ELSE b2

\* Mutant: the last boundary is dropped like any other when it is close to
\* the one before.
RECURSIVE Boundaries3From_DropLast(_, _, _, _)
Boundaries3From_DropLast(boundaries2, i, acc, minBases) ==
    IF i > Len(boundaries2) THEN acc
    ELSE Boundaries3From_DropLast(boundaries2, i + 1,
            IF boundaries2[i].pos - boundaries2[i - 1].pos >= minBases
            THEN Append(acc, boundaries2[i]) ELSE acc,
            minBases)

\* The third pass from index i on: a boundary less than minBases after the
\* one before it in boundaries2 is dropped, unless it is the last.
RECURSIVE Boundaries3From(_, _, _, _)
Boundaries3From(boundaries2, i, acc, minBases) ==
    IF i > Len(boundaries2) THEN acc
    ELSE Boundaries3From(boundaries2, i + 1,
            IF \/ boundaries2[i].pos - boundaries2[i - 1].pos >= minBases
               \/ i = Len(boundaries2)
            THEN Append(acc, boundaries2[i]) ELSE acc,
            minBases)

Boundaries3(boundaries2, minBases) ==
    Boundaries3From(boundaries2, 2, <<boundary(0, -1)>>, minBases)

\* "Convert boundaries to shards": shards with those of ref appended.
BoundariesToShards(shards, boundaries3, ref, padding) ==
    shards \o [k \in 1 .. Len(boundaries3) - 1 |->
                  [StartRef |-> ref, EndRef |-> ref,
                   Start |-> boundaries3[k].pos, End |-> boundaries3[k + 1].pos,
                   StartSeq |-> 0, EndSeq |-> 0,
                   Padding |-> padding, ShardIdx |-> Len(shards) + k - 1]]

\* The files open and the index is read; it has chunks for the first
\* nChunks references of the header.
GbsInit ==
    /\ CodecIdle
    /\ shard = <<>>
    /\ gps = <<>>
    /\ ch = <<>>
    /\ gen = <<>>
    /\ \E bytesPerShard \in 1 .. MaxBytesPerShard, minBases \in 1 .. MaxMinBases,
          padding \in {-1, 0}, includeUnmapped \in BOOLEAN, nChunks \in 0 .. MaxChunkRefs :
           gbs = [bytesPerShard |-> bytesPerShard,
                  minBases |-> minBases,
                  padding |-> padding,
                  includeUnmapped |-> includeUnmapped,
                  nChunks |-> nChunks,
                  pc |-> "chunks",
                  refId |-> 0,
                  ref |-> Nil,
                  i |-> 0,
                  lastFile |-> -1,
                  prevFilePos |-> 0,
                  boundaries |-> <<>>,
                  boundaries3 |-> <<>>,
                  shards |-> <<>>]

\* if len(chunksByRef) <= 0 { return nil, fmt.Errorf(...) }
GbsChunks ==
    /\ gbs.pc = "chunks"
    /\ gbs' = [gbs EXCEPT !.pc = IF gbs.nChunks <= 0 THEN "error" ELSE "ref"]
    /\ UNCHANGED <<codecVars, shard, gps, ch, gen>>

\* for refId := 0; refId < len(chunksByRef); refId++ { ref, refLen, offsets,
\* boundaries, prevFilePos.  The header gives the reference a length.
GbsRef ==
    /\ gbs.pc = "ref"
    /\ gbs.refId < gbs.nChunks
    /\ \E refLen \in 1 .. MaxChunkRefLen :
           gbs' = [gbs EXCEPT !.ref = Reference(gbs.refId, refLen),
                              !.i = 0,
                              !.lastFile = -1,
                              !.prevFilePos = 0,
                              !.boundaries = <<>>,
                              !.pc = "offsets"]
    /\ UNCHANGED <<codecVars, shard, gps, ch, gen>>

\* One pass of "for i, offset := range offsets": the index gives the next
\* offset, later in the file than the one before; if it is far enough from
\* the last boundary, GetCoordAtOffset reads the first record there, which
\* lies in this reference at a position not before the last one read, or in
\* a later reference (then the loop is left).
GbsOffset ==
    /\ gbs.pc = "offsets"
    /\ gbs.i < MaxOffsets
    /\ \E file \in gbs.lastFile + 1 .. MaxFilePos :
           IF gbs.i = 0 \/ file - gbs.prevFilePos > gbs.bytesPerShard
           THEN \E inRef \in BOOLEAN,
                   pos \in (IF gbs.boundaries = <<>> THEN 0
                            ELSE gbs.boundaries[Len(gbs.boundaries)].pos)
                           .. gbs.ref.len - 1 :
                    IF ~inRef
                    THEN gbs' = [gbs EXCEPT !.prevFilePos = 0, !.pc = "break"]
                    ELSE gbs' = [gbs EXCEPT
                                    !.boundaries =
                                        Append(@, boundary(IF gbs.i = 0 THEN 0 ELSE pos, file)),
                                    !.prevFilePos = file,
                                    !.lastFile = file,
                                    !.i = @ + 1]
           ELSE gbs' = [gbs EXCEPT !.lastFile = file, !.i = @ + 1]
    /\ UNCHANGED <<codecVars, shard, gps, ch, gen>>

\* The offsets of the reference are used up (or the loop was left): the
\* second and third pass over the boundaries and the shards of the reference.
GbsRefShards ==
    /\ gbs.pc \in {"offsets", "break"}
    /\ LET boundaries2 == Boundaries2(gbs.boundaries, gbs.bytesPerShard, gbs.minBases,
                                      gbs.ref.len)
           boundaries3 == Boundaries3(boundaries2, gbs.minBases)
       IN  gbs' = [gbs EXCEPT
                       !.boundaries3 = boundaries3,
                       !.shards = BoundariesToShards(@, boundaries3, gbs.ref, gbs.padding),
                       !.refId = @ + 1,
                       !.i = 0,
                       !.lastFile = -1,
                       !.prevFilePos = 0,
                       !.pc = "ref"]
    /\ UNCHANGED <<codecVars, shard, gps, ch, gen>>

\* After the loop: the unmapped shard if asked for, ValidateShardList, and
\* the return (or the exit of vlog.Fatalf).
GbsFinish ==
    /\ gbs.pc = "ref"
    /\ gbs.refId >= gbs.nChunks
    /\ LET shards == IF gbs.includeUnmapped
                     THEN Append(gbs.shards,
                                 [StartRef |-> Nil, EndRef |-> Nil,
                                  Start |-> 0, End |-> MaxInt32,
                                  StartSeq |-> 0, EndSeq |-> 0,
                                  Padding |-> 0, ShardIdx |-> Len(gbs.shards)])
                     ELSE gbs.shards
       IN  gbs' = [gbs EXCEPT
                       !.shards = shards,
                       !.pc = IF ValidateShardList(shards, gbs.padding)
                              THEN "return" ELSE "fatal"]
    /\ UNCHANGED <<codecVars, shard, gps, ch, gen>>

GbsNext ==
    \/ GbsChunks
    \/ GbsRef
    \/ GbsOffset
    \/ GbsRefShards
    \/ GbsFinish

GbsSpec == GbsInit /\ [][GbsNext]_vars

\* ================================================================ claims

Last == calls[Len(calls)]

\* The last call was op (whatever its outcome); it returned normally.
Did(op) == calls # <<>> /\ Last.op = op
Ok(op) == Did(op) /\ Last.res = "ok"

\* Every byte of the last call's src was a code below 16 when it was made.
SrcCodes == \A i \in 0 .. len[Last.src] - 1 : pre[Last.src][i] < 16

\* (n + 1) / 2 in Go's integer division.
HalfUp(n) == (n + 1) \div 2

\* C1: UnpackSeq(dst, src) with len(src) = (len(dst)+1)/2 returns, and then
\* dst[p] is the high nibble of src[p/2] for even p and its low nibble for
\* odd p, for every p below len(dst), on the scalar and on the vector path.
C1_UnpackSeqNibbles ==
    (Did("UnpackSeq") /\ len[Last.src] = HalfUp(len[Last.dst])) =>
        /\ Last.res = "ok"
        /\ \A p \in 0 .. len[Last.dst] - 1 :
              mem[Last.dst][p] =
                  IF p % 2 = 0 THEN pre[Last.src][p \div 2] \div 16
                  ELSE pre[Last.src][p \div 2] % 16

\* C1 witness: an odd-length vector-path call (97 codes from 49 arbitrary bytes).
C1_Witness ==
    /\ Ok("UnpackSeq")
    /\ len[Last.dst] = 97
    /\ pat % 2 = 1

\* C2: PackSeq(dst, src) with len(dst) = (len(src)+1)/2 and every src byte
\* below 16 returns with dst[q] = (src[2q] << 4) | src[2q+1] for every full
\* pair, and an odd last code alone in the high nibble of the last byte.
C2_PackSeqPairs ==
    (Did("PackSeq") /\ len[Last.dst] = HalfUp(len[Last.src]) /\ SrcCodes) =>
        /\ Last.res = "ok"
        /\ \A q \in 0 .. (len[Last.src] \div 2) - 1 :
              mem[Last.dst][q] = 16 * pre[Last.src][2 * q] + pre[Last.src][2 * q + 1]
        /\ len[Last.src] % 2 = 1 =>
              mem[Last.dst][len[Last.src] \div 2] = 16 * pre[Last.src][len[Last.src] - 1]

\* C2 witness: an odd-length vector-path call (97 codes into 49 bytes).
C2_Witness ==
    /\ Ok("PackSeq")
    /\ len[Last.src] = 97
    /\ SrcCodes

\* The caller's original sequence in buffer A.
Orig(i) == Gen(pat, i)

OrigCodes == \A i \in 0 .. len["A"] - 1 : Orig(i) < 16

\* The two calls made were op1 from A into B and then op2 from B into C.
Made(op1, op2) ==
    /\ Len(calls) = 2
    /\ calls[1].op = op1 /\ calls[1].dst = "B" /\ calls[1].src = "A"
    /\ calls[2].op = op2 /\ calls[2].dst = "C" /\ calls[2].src = "B"

\* C3: round trip: packing n codes into (n+1)/2 bytes and unpacking them
\* into n bytes gives the original codes back, for even and odd n.
C3_PackUnpackRoundTrip ==
    (Made("PackSeq", "UnpackSeq") /\ OrigCodes /\ len["B"] = HalfUp(len["A"])) =>
        /\ calls[2].res = "ok"
        /\ \A i \in 0 .. len["A"] - 1 : mem["C"][i] = Orig(i)

\* C3 witness: a round trip of 65 codes (vector path both ways, odd length).
C3_Witness ==
    /\ Made("PackSeq", "UnpackSeq")
    /\ calls[2].res = "ok"
    /\ OrigCodes
    /\ len["A"] = 65

\* C4: ReverseComp(dst, src) with equal lengths n and codes below 16 returns
\* with dst[i] = revCompTable[src[n-1-i]] for every i below n.
C4_ReverseCompMirror ==
    (Did("ReverseComp") /\ len[Last.dst] = len[Last.src] /\ SrcCodes) =>
        /\ Last.res = "ok"
        /\ \A i \in 0 .. len[Last.src] - 1 :
              mem[Last.dst][i] = revCompTable[pre[Last.src][len[Last.src] - 1 - i]]

\* C4 witness: a vector-path call whose last window overlaps the bulk ones.
C4_Witness ==
    /\ Ok("ReverseComp")
    /\ len[Last.src] = 49
    /\ SrcCodes

\* C5: ReverseCompInplace(buf) leaves buf equal to what ReverseComp writes
\* into a fresh destination from the buffer as it was before the call.
C5_InplaceEqualsCopy ==
    (Did("ReverseCompInplace") /\ SrcCodes) =>
        LET copy == ReverseComp(Machine(pre), "C", "A")
        IN  /\ Last.res = "ok"
            /\ copy.res = "ok"
            /\ \A i \in 0 .. len["A"] - 1 : mem["A"][i] = copy.mem["C"][i]

\* C5 witness: a buffer of exactly 2w+1 = 33 codes reversed in place.
C5_Witness ==
    /\ Ok("ReverseCompInplace")
    /\ len["A"] = 33
    /\ SrcCodes

\* Both calls made were ReverseCompInplace on buffer A.
MadeInplaceTwice ==
    /\ Len(calls) = 2
    /\ calls[1].op = "ReverseCompInplace"
    /\ calls[2].op = "ReverseCompInplace"

\* C6: involution: reverse-complementing twice, in place or by copy, gives
\* the original codes back; revCompTable is its own inverse and is the
\* mapping of the assembly table ReverseComp4Lookup; the 2-bit routine
\* applied twice gives the original low 2 bits back.
C6_Involution ==
    /\ \A x \in 0 .. 15 : revCompTable[revCompTable[x]] = x
    /\ \A x \in 0 .. 15 : ReverseComp4Lookup[x] = revCompTable[x]
    /\ (MadeInplaceTwice /\ OrigCodes) =>
          /\ calls[2].res = "ok"
          /\ \A i \in 0 .. len["A"] - 1 : mem["A"][i] = Orig(i)
    /\ (Made("ReverseComp", "ReverseComp") /\ OrigCodes /\ len["B"] = len["A"]) =>
          /\ calls[2].res = "ok"
          /\ \A i \in 0 .. len["A"] - 1 : mem["C"][i] = Orig(i)
    /\ Made("reverseComp2SSSE3Asm", "reverseComp2SSSE3Asm") =>
          \A i \in 0 .. len["A"] - 1 : mem["C"][i] % 4 = Orig(i) % 4

\* C6 witness: 65 codes reverse-complemented in place twice.
C6_Witness ==
    /\ MadeInplaceTwice
    /\ calls[2].res = "ok"
    /\ OrigCodes
    /\ len["A"] = 65

\* C7: UnpackAndReplaceSeq(dst, src, table) with len(src) = (len(dst)+1)/2
\* returns with dst[p] = table[nibble p of src]: the table applied to each
\* byte UnpackSeq produces from the same src.
C7_UnpackAndReplaceSeqTable ==
    (Did("UnpackAndReplaceSeq") /\ len[Last.src] = HalfUp(len[Last.dst])) =>
        LET plain == UnpackSeq(Machine(pre), Last.dst, Last.src)
        IN  /\ Last.res = "ok"
            /\ plain.res = "ok"
            /\ \A p \in 0 .. len[Last.dst] - 1 :
                  /\ mem[Last.dst][p] =
                        Last.table[IF p % 2 = 0 THEN pre[Last.src][p \div 2] \div 16
                                   ELSE pre[Last.src][p \div 2] % 16]
                  /\ mem[Last.dst][p] = Last.table[plain.mem[Last.dst][p]]

\* C7 witness: 65 codes through a table with entries above 127.
C7_Witness ==
    /\ Ok("UnpackAndReplaceSeq")
    /\ len[Last.dst] = 65
    /\ Last.table[0] = 255
    /\ pat % 2 = 1

\* The length relation call c was made under holds.
LenOk(c) ==
    CASE c.op \in {"UnpackSeq", "UnpackAndReplaceSeq"} ->
            len[c.src] = HalfUp(len[c.dst])
      [] c.op = "PackSeq" -> len[c.dst] = HalfUp(len[c.src])
      [] c.op = "ReverseComp" -> len[c.dst] = len[c.src]
      [] OTHER -> TRUE

\* C8: a length-checked operation called with its length relation violated
\* panics before it reads or writes a byte: every buffer is unchanged.
C8_LengthMismatchPanics ==
    (/\ calls # <<>>
     /\ Last.op \in {"UnpackSeq", "UnpackAndReplaceSeq", "PackSeq", "ReverseComp"}
     /\ ~LenOk(Last)) =>
        /\ Last.res = "panic"
        /\ mem = pre
        /\ rd = NoAccess
        /\ wr = NoAccess

\* C8 witness: PackSeq refused with a dst as long as a 40-byte src.
C8_Witness ==
    /\ Did("PackSeq")
    /\ Last.res = "panic"
    /\ len[Last.src] = 40
    /\ len[Last.dst] = 40

\* The last call read only inside src and wrote only inside dst.
InBounds ==
    \A b \in Bufs :
        /\ rd[b] \subseteq (IF b = Last.src THEN 0 .. len[b] - 1 ELSE {})
        /\ wr[b] \subseteq (IF b = Last.dst THEN 0 .. len[b] - 1 ELSE {})

\* Every byte outside dst[0 .. len(dst)) is as it was before the last call.
Untouched ==
    \A b \in Bufs : \A i \in DOMAIN mem[b] :
        (b # Last.dst \/ i >= len[b]) => mem[b][i] = pre[b][i]

\* C9: PackSeq with the length relation met and any src bytes returns, has
\* read only src[0 .. len(src)) and written only dst[0 .. len(dst)).
C9_PackSeqStaysInBounds ==
    (Did("PackSeq") /\ LenOk(Last)) =>
        /\ Last.res = "ok"
        /\ InBounds
        /\ Untouched

\* C9 witness: a vector-path call whose src holds bytes above 15.
C9_Witness ==
    /\ Ok("PackSeq")
    /\ ~SrcCodes
    /\ len[Last.src] = 66

SafeRevOrPack ==
    /\ calls # <<>>
    /\ Last.op \in {"ReverseComp", "ReverseCompInplace", "PackSeq"}
    /\ LenOk(Last)

\* C10 as stated: ReverseComp, ReverseCompInplace and PackSeq given a code
\* of 16 or more never overrun memory and always return normally.
C10_AlwaysReturns ==
    SafeRevOrPack =>
        /\ Last.res = "ok"
        /\ InBounds
        /\ Untouched

\* The last call looked every byte of its buffer up in revCompTable with a
\* bounds-checked Go index (the scalar loops of the two ReverseComp forms).
ScalarLookup ==
    \/ Last.op = "ReverseComp" /\ len[Last.src] < bytesPerVec
    \/ Last.op = "ReverseCompInplace" /\ len[Last.src] <= bytesPerVec

\* C10 amended: these calls never touch memory outside their buffers; they
\* return normally except on the scalar path of ReverseComp (n < 16) and of
\* ReverseCompInplace (n <= 16), which panics exactly when a byte of the
\* buffer is 16 or more.
C10_PanicsOnlyInScalarLookup ==
    SafeRevOrPack =>
        /\ InBounds
        /\ Untouched
        /\ Last.res = "panic" <=> (ScalarLookup /\ ~SrcCodes)

\* C10 witness: ReverseComp of 15 bytes, one of them above 15, panicked.
C10_Witness ==
    /\ Did("ReverseComp")
    /\ LenOk(Last)
    /\ len[Last.src] = 15
    /\ ~SrcCodes
    /\ Last.res = "panic"


\* The nibble of src that UnpackSeq's rule puts at position p of dst.
NibbleAt(srcMem, p) ==
    IF p % 2 = 0 THEN Shr4(srcMem[p \div 2]) ELSE Low4(srcMem[p \div 2])

\* C11: after UnpackSeqUnsafe(dst, src) with len(src) = (len(dst)+1)/2 and
\* the capacities rounded up to the vector width, dst[p] is the high nibble
\* of src[p/2] for even p and its low nibble for odd p, for every p below
\* len(dst), and dst[0..len) is what UnpackSeq leaves there.
C11_UnpackSeqUnsafeNibbles ==
    Ok("UnpackSeqUnsafe") =>
        LET safe == UnpackSeq(Machine(pre), Last.dst, Last.src)
        IN  \A p \in 0 .. len[Last.dst] - 1 :
                /\ mem[Last.dst][p] = NibbleAt(pre[Last.src], p)
                /\ mem[Last.dst][p] = safe.mem[Last.dst][p]

\* C12: after PackSeqUnsafe(dst, src) with len(dst) = (len(src)+1)/2, every
\* src byte below 16 and the capacities rounded up to the vector width, the
\* high 4 bits of dst[p/2] are src[p] for even p and the low 4 bits are
\* src[p] for odd p; the low 4 bits of dst[len(src)/2] are zero when
\* len(src) is odd; and UnpackSeqUnsafe of the result gives src back.
C12_PackSeqUnsafePairs ==
    /\ (Ok("PackSeqUnsafe") /\ SrcCodes) =>
           /\ \A p \in 0 .. len[Last.src] - 1 :
                  NibbleAt(mem[Last.dst], p) = pre[Last.src][p]
           /\ len[Last.src] % 2 = 1 =>
                  Low4(mem[Last.dst][len[Last.src] \div 2]) = 0
    /\ (Made("PackSeqUnsafe", "UnpackSeqUnsafe") /\ OrigCodes) =>
           \A i \in 0 .. len["A"] - 1 : mem["C"][i] = Orig(i)

\* The offsets below n rounded up to the vector width.
BelowRoundUp(n) == 0 .. RoundUpPow2(n) - 1

\* C13: for every length, zero included, UnpackSeqUnsafe,
\* UnpackAndReplaceSeqUnsafe and PackSeqUnsafe called under their length
\* contract read src only below len(src) rounded up to 16 and write dst only
\* below len(dst) rounded up to 16.
C13_UnsafeStaysInCapacity ==
    (Did("UnpackSeqUnsafe") \/ Did("UnpackAndReplaceSeqUnsafe") \/ Did("PackSeqUnsafe")) =>
        /\ rd[Last.src] \subseteq BelowRoundUp(len[Last.src])
        /\ wr[Last.dst] \subseteq BelowRoundUp(len[Last.dst])

\* The offsets the last call read or wrote in either of its buffers.
Touched == rd[Last.src] \cup wr[Last.src] \cup rd[Last.dst] \cup wr[Last.dst]

DidReverseCompUnsafe == Did("ReverseCompUnsafe") \/ Did("ReverseCompUnsafeInplace")

\* C14: ReverseCompUnsafe and ReverseCompUnsafeInplace on n bytes touch only
\* offsets below n+1 rounded up to 16, and nothing outside their own
\* buffers: the tiny path (n <= 16) loads exactly [0,16) and stores exactly
\* [0,16); the bulk path (n > 16) stays inside [0,n).
C14_ReverseCompUnsafeFootprint ==
    DidReverseCompUnsafe =>
        LET n == len[Last.src]
        IN  /\ Last.res = "ok"
            /\ Touched \subseteq 0 .. RoundUpPow2(n + 1) - 1
            /\ \A b \in Bufs \ {Last.src, Last.dst} : rd[b] = {} /\ wr[b] = {}
            /\ rd[Last.dst] \subseteq rd[Last.src]
            /\ wr[Last.src] \subseteq wr[Last.dst]
            /\ n <= 16 => rd[Last.src] = 0 .. 15 /\ wr[Last.dst] = 0 .. 15
            /\ n > 16 => Touched \subseteq 0 .. n - 1

\* C14 witness: a tiny copy of a full vector (n = 16) after an in-place
\* call, with exactly [0,16) loaded and stored.
C14_Witness ==
    /\ Len(calls) = 2
    /\ calls[1].op = "ReverseCompUnsafeInplace"
    /\ calls[2].op = "ReverseCompUnsafe"
    /\ len[Last.src] = 16
    /\ rd[Last.src] = 0 .. 15
    /\ wr[Last.dst] = 0 .. 15

\* Buffer b of memory mm with every byte at or beyond len(b) set to v.
WithPad(mm, b, v) ==
    [mm EXCEPT ![b] = [i \in DOMAIN @ |-> IF i >= len[b] THEN v ELSE @[i]]]

\* The bytes a byte beyond the logical length may hold.
PadValues == {0, 9, \h7f, \hff}

\* C15: for codes below 16 and every n, zero and the tiny path n <= 16
\* included, ReverseCompUnsafe leaves in dst[0..n) what ReverseComp leaves
\* there and ReverseCompUnsafeInplace what ReverseCompInplace leaves; and on
\* the tiny path the result in [0,n) does not depend on any byte at an
\* index >= n.
C15_ReverseCompUnsafeEqualsSafe ==
    /\ (Ok("ReverseCompUnsafe") /\ SrcCodes) =>
           LET safe == ReverseComp(Machine(pre), Last.dst, Last.src)
           IN  /\ safe.res = "ok"
               /\ \A i \in 0 .. len[Last.dst] - 1 :
                      mem[Last.dst][i] = safe.mem[Last.dst][i]
               /\ \A v \in PadValues, i \in 0 .. len[Last.dst] - 1 :
                      ReverseCompUnsafe(Machine(WithPad(pre, Last.src, v)),
                                        Last.dst, Last.src).mem[Last.dst][i]
                          = mem[Last.dst][i]
    /\ (Ok("ReverseCompUnsafeInplace") /\ SrcCodes) =>
           LET safe == ReverseCompInplace(Machine(pre), Last.dst)
           IN  /\ safe.res = "ok"
               /\ \A i \in 0 .. len[Last.dst] - 1 :
                      mem[Last.dst][i] = safe.mem[Last.dst][i]
               /\ \A v \in PadValues, i \in 0 .. len[Last.dst] - 1 :
                      ReverseCompUnsafeInplace(Machine(WithPad(pre, Last.dst, v)),
                                               Last.dst).mem[Last.dst][i]
                          = mem[Last.dst][i]

\* C15 witness: a tiny in-place call on 15 codes that changed the buffer.
C15_Witness ==
    /\ Ok("ReverseCompUnsafeInplace")
    /\ SrcCodes
    /\ len["A"] = 15
    /\ \E i \in 0 .. 14 : mem["A"][i] # pre["A"][i]

\* C16: a safe operation (UnpackSeq, PackSeq, ReverseComp,
\* ReverseCompInplace, UnpackAndReplaceSeq) called with its length relation
\* met reads only src[0 .. len(src)) and writes only dst[0 .. len(dst)), the
\* single buffer standing for both when in place; when it returns, the reads
\* and the writes reach the logical ends exactly; a copy leaves src as it
\* was, and every byte outside dst[0 .. len(dst)) is unchanged.
C16_SafeFrame ==
    (/\ calls # <<>>
     /\ Last.op \in {"UnpackSeq", "PackSeq", "ReverseComp", "ReverseCompInplace",
                     "UnpackAndReplaceSeq"}
     /\ LenOk(Last)) =>
        /\ InBounds
        /\ Untouched
        /\ Last.src # Last.dst => mem[Last.src] = pre[Last.src]
        /\ Last.res = "ok" =>
               /\ rd[Last.src] = 0 .. len[Last.src] - 1
               /\ wr[Last.dst] = 0 .. len[Last.dst] - 1

\* C16 witness: a vector-path UnpackAndReplaceSeq into 67 bytes (an odd
\* tail after the last window) that wrote exactly dst[0 .. 67).
C16_Witness ==
    /\ Ok("UnpackAndReplaceSeq")
    /\ len[Last.dst] = 67
    /\ len[Last.src] = 34
    /\ wr[Last.dst] = 0 .. 66
    /\ \E i \in 0 .. 66 : mem[Last.dst][i] # pre[Last.dst][i]

\* C17: when hasSSE42Asm reports the feature absent, init panics and no
\* codec operation ever runs (nothing changes again); otherwise bytesPerVec
\* is 16 and log2BytesPerVec is 4 (2^log2BytesPerVec = bytesPerVec) before
\* any codec call, the two are written once, by init, and keep their values.
C17_InitOnce ==
    /\ [](phase = "aborted" => calls = <<>> /\ mem = pre /\ bytesPerVec = 0)
    /\ []((phase \in {"ready", "panicked"} \/ calls # <<>>) =>
              /\ bytesPerVec = 16
              /\ log2BytesPerVec = 4
              /\ 2 ^ log2BytesPerVec = bytesPerVec)
    /\ [][phase # "aborted"]_vars
    /\ [][(bytesPerVec' # bytesPerVec \/ log2BytesPerVec' # log2BytesPerVec) =>
              /\ phase = "start"
              /\ calls = <<>>
              /\ bytesPerVec' = 16
              /\ log2BytesPerVec' = 4]_vars

\* C17 witness: two codec calls made after init, the widths still in place.
C17_Witness ==
    /\ Len(calls) = 2
    /\ phase = "ready"
    /\ bytesPerVec = 16
    /\ log2BytesPerVec = 4

C20_PositionShardsTile ==
    (gps.pc = "return" \/ (gps.pc = "fatal" /\ gps.padding >= 0)) =>
        LET L == gps.shards
            n == Len(L) - (IF gps.includeUnmapped THEN 1 ELSE 0)
            nRefs == Len(gps.refs)
        IN  /\ gps.pc = "return"
            /\ ValidateShardList(L, gps.padding)
            /\ n >= 0
            /\ \A i \in 1 .. Len(L) : L[i].ShardIdx = i - 1
            /\ gps.includeUnmapped =>
                   /\ L[Len(L)].StartRef = Nil /\ L[Len(L)].EndRef = Nil
                   /\ L[Len(L)].Start = 0 /\ L[Len(L)].End = MaxInt32
            /\ \A i \in 1 .. n :
                   /\ L[i].StartRef # Nil
                   /\ L[i].EndRef = L[i].StartRef
                   /\ L[i].StartRef = gps.refs[L[i].StartRef.id + 1]
                   /\ L[i].Padding = gps.padding
                   /\ L[i].Start < L[i].End
                   /\ L[i].End - L[i].Start <= gps.shardSize
            /\ (n = 0) = (nRefs = 0)
            /\ n > 0 =>
                   /\ L[1].StartRef.id = 0 /\ L[1].Start = 0
                   /\ L[n].StartRef.id = nRefs - 1 /\ L[n].End = L[n].StartRef.len
            /\ \A i \in 1 .. n - 1 :
                   IF L[i + 1].StartRef = L[i].StartRef
                   THEN L[i + 1].Start = L[i].End
                   ELSE /\ L[i + 1].StartRef.id = L[i].StartRef.id + 1
                        /\ L[i].End = L[i].StartRef.len
                        /\ L[i + 1].Start = 0

\* C20 witness: TestNewShardChannel in small: references of 4, 5 and 1
\* bases cut with shardSize 2 give six shards (2, 3 and 1), the fifth one
\* being the one-base rest [4, 5) of the second reference.
C20_Witness ==
    /\ gps.pc = "return"
    /\ Len(gps.refs) = 3
    /\ gps.refs[1].len = 4 /\ gps.refs[2].len = 5 /\ gps.refs[3].len = 1
    /\ gps.shardSize = 2
    /\ gps.padding = MaxPad
    /\ ~gps.includeUnmapped
    /\ Len(gps.shards) = 6
    /\ gps.shards[5].Start = 4 /\ gps.shards[5].End = 5
    /\ gps.shards[5].ShardIdx = 4

\* Number of positions of the list s that hold x.
Count(x, s) == Cardinality({i \in DOMAIN s : s[i] = x})

RECURSIVE ReceivedUpTo(_, _)
\* How often x was received by the consumers 1 .. c.
ReceivedUpTo(x, c) ==
    IF c = 0 THEN 0 ELSE Count(x, ch.got[c]) + ReceivedUpTo(x, c - 1)

ChanReturned == ch.pc = "return"

\* C21: NewShardChannel never blocks in a send and returns; the channel it
\* returns is closed and holds the whole list in order; from then on every
\* shard is either still in the buffer or was received by exactly one
\* consumer (no shard is lost or delivered twice); a single consumer has
\* received a prefix of the list, in list order; a range ends only on the
\* drained channel, and every consumer's range does end, at which point
\* all len(shards) shards have been received.
C21_ShardChannel ==
    /\ [](ch.pc = "send" /\ ch.i <= Len(ch.shards) => Len(ch.buf) < ch.cap)
    /\ <>ChanReturned
    /\ [](ChanReturned => ch.closed)
    /\ [](ChanReturned /\ (\A c \in DOMAIN ch.got : ch.got[c] = <<>>)
            => ch.buf = ch.shards)
    /\ [](ChanReturned =>
            \A x \in {ChanShard(0), ChanShard(1)} :
                ReceivedUpTo(x, Len(ch.got)) + Count(x, ch.buf) = Count(x, ch.shards))
    /\ [](ChanReturned /\ Len(ch.got) = 1 => ch.got[1] \o ch.buf = ch.shards)
    /\ [](\A c \in DOMAIN ch.done : ch.done[c] => ch.buf = <<>>)
    /\ <>[](\A c \in DOMAIN ch.done : ch.done[c])

\* Two consumers shared a list of three shards with a repeat, each received
\* at least one, and both ranges have ended.
C21_Witness ==
    /\ Len(ch.shards) = 3
    /\ ch.shards[1] = ch.shards[3]
    /\ ch.shards[1] # ch.shards[2]
    /\ Len(ch.got) = 2
    /\ ch.got[1] # <<>>
    /\ ch.got[2] # <<>>
    /\ \A c \in DOMAIN ch.done : ch.done[c]

\* The calls made so far had legal arguments (a mapped reference with a
\* position from 0, or the unmapped reference) in non-decreasing order.
GenLegal(c) == c.refID >= UnmappedRefID /\ (c.refID = UnmappedRefID \/ c.pos >= 0)

GenArgsCompare(c, d) == CoordCompare(Coord(c.refID, c.pos, 0), Coord(d.refID, d.pos, 0))

GenNonDecreasing ==
    /\ \A k \in DOMAIN gen.hist : GenLegal(gen.hist[k])
    /\ \A k \in 1 .. Len(gen.hist) - 1 :
           GenArgsCompare(gen.hist[k], gen.hist[k + 1]) <= 0

\* The arguments as Generate takes them: a position given with the unmapped
\* reference counts as 0.
GenNorm(c) == <<c.refID, IF c.refID = InfinityRefID THEN 0 ELSE c.pos>>
GenRaw(c) == <<c.refID, c.pos>>

\* The claim as written, on the arguments as the caller passed them.
C22_SeqByRawArguments ==
    GenNonDecreasing =>
        /\ gen.res = "ok"
        /\ \A k \in DOMAIN gen.hist :
               gen.hist[k].ret.Seq =
                   IF k > 1 /\ GenRaw(gen.hist[k]) = GenRaw(gen.hist[k - 1])
                   THEN gen.hist[k - 1].ret.Seq + 1
                   ELSE 0
        /\ \A k \in 1 .. Len(gen.hist) - 1 :
               CoordCompare(gen.hist[k].ret, gen.hist[k + 1].ret) < 0

\* C22: from NewCoordGenerator, on legal arguments in non-decreasing order
\* no call of Generate ends in Fatalf; a call whose (refID, pos) equals that
\* of the call before, every position of the unmapped reference counting as
\* 0, returns the previous Seq plus one (so the N-th in a row returns N-1),
\* any other call returns Seq 0; every coordinate returned carries the
\* call's refID and position, and the coordinates returned are strictly
\* increasing in (RefId, Pos, Seq) order.
C22_SeqCountsRepeats ==
    GenNonDecreasing =>
        /\ gen.res = "ok"
        /\ \A k \in DOMAIN gen.hist :
               /\ gen.hist[k].ret.Seq =
                      IF k > 1 /\ GenNorm(gen.hist[k]) = GenNorm(gen.hist[k - 1])
                      THEN gen.hist[k - 1].ret.Seq + 1
                      ELSE 0
               /\ <<gen.hist[k].ret.RefId, gen.hist[k].ret.Pos>> = GenNorm(gen.hist[k])
        /\ \A k \in 1 .. Len(gen.hist) - 1 :
               CoordCompare(gen.hist[k].ret, gen.hist[k + 1].ret) < 0

\* Three calls in a row at one mapped coordinate returned Seq 0, 1, 2 and a
\* call at the unmapped reference then returned Seq 0.
C22_Witness ==
    /\ Len(gen.hist) = 4
    /\ gen.res = "ok"
    /\ \A k \in 1 .. 3 : GenRaw(gen.hist[k]) = <<1, 1>> /\ gen.hist[k].ret.Seq = k - 1
    /\ gen.hist[4].refID = UnmappedRefID
    /\ gen.hist[4].ret = Coord(UnmappedRefID, 0, 0)

\* C23: GetByteBasedShards returns an error exactly when the index has no
\* chunks; otherwise, called with padding >= 0, bytesPerShard >= 1 and
\* minBases >= 1 on an index whose records lie in their reference at
\* positions that do not decrease with the file offset, it ends by
\* returning and not in vlog.Fatalf, and whatever the padding the list it
\* returns passes ValidateShardList: the i-th shard has ShardIdx i; only
\* the last shard can have nil references, and has them exactly when
\* includeUnmapped is set; every reference with chunks has shards, in
\* header order; the first shard of a reference starts at 0, every shard
\* has Start < End, consecutive shards of a reference are contiguous, and
\* the last shard of a reference ends at the reference length.
C23_ByteShardsValid ==
    /\ gbs.pc = "error" => gbs.nChunks = 0
    /\ gbs.pc \in {"ref", "offsets", "break", "return", "fatal"} => gbs.nChunks > 0
    /\ (gbs.pc = "return" \/ (gbs.pc = "fatal" /\ gbs.padding >= 0)) =>
        LET L == gbs.shards
            n == Len(L) - (IF gbs.includeUnmapped THEN 1 ELSE 0)
        IN  /\ gbs.pc = "return"
            /\ ValidateShardList(L, gbs.padding)
            /\ n >= gbs.nChunks
            /\ \A i \in 1 .. Len(L) : L[i].ShardIdx = i - 1
            /\ gbs.includeUnmapped =>
                   /\ L[Len(L)].StartRef = Nil /\ L[Len(L)].EndRef = Nil
                   /\ L[Len(L)].Start = 0 /\ L[Len(L)].End = MaxInt32
            /\ \A i \in 1 .. n :
                   /\ L[i].StartRef # Nil
                   /\ L[i].EndRef = L[i].StartRef
                   /\ L[i].Padding = gbs.padding
                   /\ 0 <= L[i].Start
                   /\ L[i].Start < L[i].End
                   /\ L[i].End <= L[i].StartRef.len
            /\ L[1].StartRef.id = 0 /\ L[1].Start = 0
            /\ L[n].StartRef.id = gbs.nChunks - 1 /\ L[n].End = L[n].StartRef.len
            /\ \A i \in 1 .. n - 1 :
                   IF L[i + 1].StartRef = L[i].StartRef
                   THEN L[i + 1].Start = L[i].End
                   ELSE /\ L[i + 1].StartRef.id = L[i].StartRef.id + 1
                        /\ L[i].End = L[i].StartRef.len
                        /\ L[i + 1].Start = 0

\* Two references with chunks; the second one, of 3 bases, had boundaries at
\* file offsets 0 and 3 (positions 0 and 2) and bytesPerShard 1: the stretch
\* was subdivided at position 1, giving the shards [0,1) [1,2) [2,3),
\* followed by the unmapped shard.
C23_Witness ==
    /\ gbs.pc = "return"
    /\ gbs.nChunks = 2
    /\ gbs.bytesPerShard = 1
    /\ gbs.minBases = 1
    /\ gbs.includeUnmapped
    /\ gbs.ref.len = 3
    /\ gbs.boundaries = <<boundary(0, 0), boundary(2, 3)>>
    /\ Len(gbs.boundaries3) = 4
    /\ gbs.shards[Len(gbs.shards)].StartRef = Nil
    /\ gbs.shards[Len(gbs.shards) - 1].Start = 2
    /\ gbs.shards[Len(gbs.shards) - 1].End = 3
    /\ gbs.shards[Len(gbs.shards) - 2].Start = 1

\* The 16 bytes of buffer b at offset a as they were when the call was made.
OrigVec(b, a) == [j \in Lanes |-> pre[b][a + j]]

Window(a) == a .. a + 15

\* The single call of StepSpec is in the bulk routine (nByte > 16).
InBulk == thr # <<>> /\ thr[1].nByte > 16

\* C24: in reverseComp4InplaceSSSE3Asm (nByte > 16), no window is loaded
\* after a store has written into it, so every vector register holds the
\* original bytes of its window from its load until the pass is over; in
\* the LastThree block all three windows are loaded before the first of
\* its three stores; and when the routine returns, index i of [0, nByte)
\* holds the complement (revCompTable) of the original code at index
\* nByte-1-i, the bytes from nByte on being as they were.
C24_InplaceLoadsOriginal ==
    InBulk =>
        LET t == thr[1]
            b == t.buf
        IN  /\ t.pc = "Loop1" => Window(t.SI) \cap wr[b] = {}
            /\ t.pc = "Loop2" => Window(t.DI) \cap wr[b] = {}
            /\ t.pc = "Three1" => Window(t.SI) \cap wr[b] = {}
            /\ t.pc = "Three2" => Window(t.SI + 16) \cap wr[b] = {}
            /\ t.pc = "Three3" => Window(t.DI) \cap wr[b] = {}
            /\ t.pc \in {"Loop2", "Loop3", "Loop4"} => t.X2 = OrigVec(b, t.SI)
            /\ t.pc \in {"Loop3", "Loop4"} => t.X3 = OrigVec(b, t.DI)
            /\ t.pc \in {"Three2", "Three3", "Three4", "Three5", "Three6"} =>
                   t.X2 = OrigVec(b, t.SI)
            /\ t.pc \in {"Three3", "Three4", "Three5", "Three6"} =>
                   t.X3 = OrigVec(b, t.SI + 16)
            /\ t.pc \in {"Three4", "Three5", "Three6"} => t.X4 = OrigVec(b, t.DI)
            /\ t.pc = "ret" =>
                   /\ \A i \in 0 .. t.nByte - 1 :
                          pre[b][t.nByte - 1 - i] < 16 =>
                              mem[b][i] = revCompTable[pre[b][t.nByte - 1 - i]]
                   /\ \A i \in DOMAIN mem[b] : i >= t.nByte => mem[b][i] = pre[b][i]

\* 70 bytes of codes: one pass of the loop on the outer windows, then the
\* LastThree block on the 38 central bytes, has reversed the buffer.
C24_Witness ==
    /\ InBulk
    /\ thr[1].nByte = 70
    /\ pat = 0
    /\ thr[1].pc = "ret"
    /\ thr[1].nLoop = 1
    /\ thr[1].nLastThree = 1
    /\ wr["A"] = 0 .. 69
    /\ mem["A"][0] = revCompTable[pre["A"][69]]
    /\ mem["A"] # pre["A"]

\* The passes of the loop a call on nByte bytes makes, and whether the
\* LastThree block follows, as the claim gives them.
ExpectLastThree(nByte) == (nByte + 15) % 32 >= 16
ExpectLoops(nByte) ==
    IF ExpectLastThree(nByte) THEN (nByte - 17) \div 32 ELSE (nByte + 15) \div 32

\* C25: for nByte > 16 reverseComp4InplaceSSSE3Asm returns; if
\* (nByte+15) % 32 is in 0..15 it has then made (nByte+15)/32 passes of the
\* two-window loop and none of the LastThree block; if it is in 16..31 it
\* has made (nByte-17)/32 passes of the loop and one of the LastThree block,
\* and when that block is entered the windows at SI and DI enclose the
\* nByte - 32*passes bytes not yet processed, between 33 and 48 of them.
C25_InplaceLoopCount ==
    /\ InBulk ~> (thr # <<>> /\ thr[1].pc = "ret")
    /\ [](InBulk =>
            LET t == thr[1]
                left == t.nByte - 32 * t.nLoop
            IN  /\ t.pc = "ret" =>
                       /\ t.nLoop = ExpectLoops(t.nByte)
                       /\ t.nLastThree = (IF ExpectLastThree(t.nByte) THEN 1 ELSE 0)
                /\ t.pc \in {"Loop1", "Loop2", "Loop3", "Loop4"} =>
                       /\ t.nLoop < ExpectLoops(t.nByte)
                       /\ t.nLastThree = 0
                /\ t.pc \in {"Three1", "Three2", "Three3", "Three4", "Three5", "Three6"} =>
                       /\ ExpectLastThree(t.nByte)
                       /\ t.nLoop = ExpectLoops(t.nByte)
                       /\ t.nLastThree = 0
                       /\ t.SI = 16 * t.nLoop
                       /\ t.DI + 16 - t.SI = left
                       /\ left >= 33 /\ left <= 48)

\* 98 bytes: after two passes of the loop the LastThree block is entered
\* with 34 central bytes left.
C25_Witness ==
    /\ InBulk
    /\ thr[1].nByte = 98
    /\ thr[1].pc = "Three1"
    /\ thr[1].nLoop = 2
    /\ thr[1].DI + 16 - thr[1].SI = 34

DidPackOrUnpack ==
    /\ calls # <<>>
    /\ Last.op \in {"UnpackSeq", "UnpackAndReplaceSeq", "PackSeq"}
    /\ LenOk(Last)

\* The test the last call made to choose its scalar loop, on the lengths
\* it was called with.
LastUsedScalar ==
    CASE Last.op = "UnpackSeq" -> UnpackSeqUseScalar(len[Last.dst] \div 2)
      [] Last.op = "UnpackAndReplaceSeq" ->
             UnpackAndReplaceSeqUseScalar(len[Last.dst] \div 2)
      [] Last.op = "PackSeq" -> PackSeqUseScalar(len[Last.src] \div 2)

WithLowNibble(mm, b, v) ==
    [mm EXCEPT ![b][len[b] - 1] = (@ \div 16) * 16 + v]

\* The last call was op with an odd len(dst) and the src length to match.
DidOdd(op) == Ok(op) /\ LenOk(Last) /\ len[Last.dst] % 2 = 1

\* C27: UnpackSeq and UnpackAndReplaceSeq with an odd len(dst) return the
\* same dst, padding included, and return normally, whatever the low 4 bits
\* of the last src byte are; the last code comes from its high 4 bits.
C27_LowNibbleIgnored ==
    /\ DidOdd("UnpackSeq") =>
           /\ mem[Last.dst][len[Last.dst] - 1] = pre[Last.src][len[Last.src] - 1] \div 16
           /\ \A v \in 0 .. 15 :
                  LET r == UnpackSeq(Machine(WithLowNibble(pre, Last.src, v)),
                                     Last.dst, Last.src)
                  IN  r.res = "ok" /\ r.mem[Last.dst] = mem[Last.dst]
    /\ DidOdd("UnpackAndReplaceSeq") =>
           /\ mem[Last.dst][len[Last.dst] - 1]
                  = Last.table[pre[Last.src][len[Last.src] - 1] \div 16]
           /\ \A v \in 0 .. 15 :
                  LET r == UnpackAndReplaceSeq(Machine(WithLowNibble(pre, Last.src, v)),
                                               Last.dst, Last.src, Last.table)
                  IN  r.res = "ok" /\ r.mem[Last.dst] = mem[Last.dst]

\* UnpackAndReplaceSeq into 33 bytes (vector path and odd tail) from a src
\* whose last byte has different nibbles that the table maps differently.
C27_Witness ==
    /\ DidOdd("UnpackAndReplaceSeq")
    /\ len[Last.dst] = 33
    /\ Last.table[pre[Last.src][16] % 16] # Last.table[pre[Last.src][16] \div 16]

\* C28: UnpackAndReplaceSeqUnsafe called with len(src) other than
\* (len(dst) + 1) / 2 panics.
C28_UnsafePanicsOnMismatch ==
    (/\ Did("UnpackAndReplaceSeqUnsafe")
     /\ len[Last.src] # (len[Last.dst] + 1) \div 2) =>
        Last.res = "panic"

\* C29: whatever the header, shardSize and padding, every pass of the loop
\* "for start < ref.Len()" of GetPositionBasedShards moves start forward,
\* and the function comes to its return statement.
C29_PositionShardsReturn ==
    /\ [][(gps.pc = "range" /\ gps'.shardIdx = gps.shardIdx + 1)
            => gps'.start > gps.start]_vars
    /\ <>(gps.pc = "return")

====
